---- MODULE Spec2Model ----
(***************************************************************************)
(* EhRecommender: the recommendation engine, its feedback-learning loop   *)
(* and the local database it keeps, as a state machine.                    *)
(*                                                                         *)
(* Floats are modelled as fixed-point integers with four decimals          *)
(* (ONE stands for 1.0), rounded towards zero.  Time is counted in days.  *)
(***************************************************************************)
EXTENDS Integers, Sequences, FiniteSets, TLC

VARIABLES
    database,     \* models.database.Database: the SQLite tables
    engine,       \* RecommendationEngine and its analyzers (in memory)
    now,          \* datetime.now(), in days
    crawler,      \* FavoritesCrawler: its configuration, the crawl that runs
                  \* (the locals of the loop) and the page fetches it made
    flows,        \* the coroutines of the event loop and their positions
    calls,        \* the handle_feedback calls made so far, per gallery
    push          \* the coroutines that send recommendations (their locals)
                  \* and the recommendations sent to the chat

vars == <<database, engine, now, crawler, flows, calls, push>>

----------------------------------------------------------------------------
\* Bounds of the model

MaxTime == 2
MaxCount == 3
MaxLikes == 2
MaxDislikes == 11
MaxPages == 3
MaxRetries == 2

----------------------------------------------------------------------------
\* Fixed-point arithmetic

ONE == 10000

Min(a, b) == IF a <= b THEN a ELSE b
Max(a, b) == IF a >= b THEN a ELSE b

Range(s) == {s[i] : i \in DOMAIN s}

RECURSIVE SetSum(_, _)
SetSum(f, D) ==
    IF D = {} THEN 0
    ELSE LET x == CHOOSE y \in D : TRUE IN f[x] + SetSum(f, D \ {x})

Force(f) == f @@ <<>>

SetMax(f, D) == CHOOSE m \in {f[x] : x \in D} : \A x \in D : f[x] <= m

Occurrences(x, s) == Cardinality({i \in DOMAIN s : s[i] = x})

\* x * x for a fixed-point x with |x| <= 5.0
Sq(x) == ((x \div 10) * (x \div 10)) \div 100

RECURSIVE ISqrtBetween(_, _, _)
ISqrtBetween(n, lo, hi) ==
    IF lo >= hi THEN lo
    ELSE LET mid == (lo + hi + 1) \div 2
         IN IF mid * mid <= n THEN ISqrtBetween(n, mid, hi)
            ELSE ISqrtBetween(n, lo, mid - 1)

\* the integer square root
ISqrt(n) == ISqrtBetween(n, 0, Min(n, 46340))

\* exp(-x) for a fixed-point x >= 0: the Taylor polynomial of exp(-x/16),
\* squared four times
ExpNeg(x) ==
    IF x >= 12 * ONE THEN 0
    ELSE LET y == x \div 16
             y2 == (y * y) \div ONE
             y3 == (y2 * y) \div ONE
             y4 == (y3 * y) \div ONE
             e0 == ONE - y + (y2 \div 2) - (y3 \div 6) + (y4 \div 24)
             e1 == (e0 * e0) \div ONE
             e2 == (e1 * e1) \div ONE
             e3 == (e2 * e2) \div ONE
         IN (e3 * e3) \div ONE

\* ln(k) for k in 1..6, fixed-point
LnTable == <<0, 6931, 10986, 13863, 16094, 17918>>

\* list.sort(key=..., reverse=True): stable, descending by key
RECURSIVE InsertDesc(_, _, _)
InsertDesc(sorted, x, key) ==
    IF sorted = <<>> THEN <<x>>
    ELSE IF key[Head(sorted)] < key[x] THEN <<x>> \o sorted
    ELSE <<Head(sorted)>> \o InsertDesc(Tail(sorted), x, key)

RECURSIVE SortDesc(_, _)
SortDesc(s, key) ==
    IF s = <<>> THEN <<>>
    ELSE InsertDesc(SortDesc(SubSeq(s, 1, Len(s) - 1), key), s[Len(s)], key)

\* the values f[x], x in D, in ascending order
RECURSIVE SortedValues(_, _)
SortedValues(f, D) ==
    IF D = {} THEN <<>>
    ELSE LET x == CHOOSE y \in D : \A z \in D : f[y] <= f[z]
         IN <<f[x]>> \o SortedValues(f, D \ {x})

\* all orderings of a set as sequences without repetition
Orderings(D) ==
    {s \in [1 .. Cardinality(D) -> D] : \A i, j \in DOMAIN s : s[i] = s[j] => i = j}

None == "None"

\* None where the code expects a number of days
NoDays == 0 - 1

----------------------------------------------------------------------------
\* The content store (EHDB), read-only.  Gallery 4 is a gallery id that the
\* store cannot resolve.

TagElf == [ns |-> "female", name |-> "elf"]
TagJp == [ns |-> "language", name |-> "japanese"]
TagArt == [ns |-> "artist", name |-> "x"]
TagMisc == [ns |-> None, name |-> "misc"]

GIDS == 1 .. 4

\* rating is fixed-point, posted is a day; the ratings are pairwise distinct
ehdb ==
    (1 :> [gid |-> 1, tags |-> <<TagElf, TagJp>>, uploader |-> "alice",
           rating |-> 45000, filecount |-> 20, category |-> "Manga",
           posted |-> 0 - 10])
 @@ (2 :> [gid |-> 2, tags |-> <<TagElf, TagJp, TagArt>>, uploader |-> "alice",
           rating |-> 44000, filecount |-> 25, category |-> "Manga",
           posted |-> 0])
 @@ (3 :> [gid |-> 3, tags |-> <<TagMisc>>, uploader |-> "bob",
           rating |-> 30000, filecount |-> 31, category |-> "Doujinshi",
           posted |-> 1])
 @@ (5 :> [gid |-> 5, tags |-> <<TagElf, TagJp, TagArt>>, uploader |-> "alice",
           rating |-> 46000, filecount |-> 25, category |-> "Manga",
           posted |-> 2])

\* get_gallery(gid) is ehdb[gid] when the row exists and None otherwise
Resolves(gid) == gid \in DOMAIN ehdb

get_galleries_by_ids(gids) == {ehdb[g] : g \in gids \cap DOMAIN ehdb}

\* the tags of the content store
AllTags == UNION {Range(ehdb[g].tags) : g \in DOMAIN ehdb}

----------------------------------------------------------------------------
\* TagAnalyzer

NAMESPACE_WEIGHTS ==
    [female |-> 12000, male |-> 12000, parody |-> 10000, character |-> 10000,
     artist |-> 9000, group |-> 9000, language |-> 11000, other |-> 8000,
     mixed |-> 10000, cosplayer |-> 7000, reclass |-> 5000]

Namespace(tag) == IF tag.ns # None THEN tag.ns ELSE "other"

NsWeight(tag) ==
    IF Namespace(tag) \in DOMAIN NAMESPACE_WEIGHTS
    THEN NAMESPACE_WEIGHTS[Namespace(tag)] ELSE ONE

\* Counter over the tags of all galleries, with multiplicity
TagCounter(galleries) ==
    [t \in UNION {Range(g.tags) : g \in galleries} |->
        SetSum([g \in galleries |-> Occurrences(t, g.tags)], galleries)]

\* tf * ns_weight for every tag, before normalisation
RawBaseWeights(galleries) ==
    LET tc == TagCounter(galleries)
    IN [t \in DOMAIN tc |-> (tc[t] * NsWeight(t)) \div Cardinality(galleries)]

base_positive_delta == 1000
base_negative_delta == 1500

RECURSIVE Decay(_)
Decay(k) == IF k = 0 THEN ONE ELSE (Decay(k - 1) * 9) \div 10

RECURSIVE PositiveSum(_, _)
PositiveSum(i, neg_count) ==
    IF i = 0 THEN 0
    ELSE PositiveSum(i - 1, neg_count)
         + (base_positive_delta * Decay((i - 1) + neg_count)) \div ONE

RECURSIVE NegativeSum(_, _)
NegativeSum(i, pos_count) ==
    IF i = 0 THEN 0
    ELSE NegativeSum(i - 1, pos_count)
         + (base_negative_delta * Decay((i - 1) + pos_count)) \div ONE

\* a multiplier that is not clamped
compute_feedback_multiplier_unclamped(pos_count, neg_count) ==
    IF pos_count = 0 /\ neg_count = 0 THEN ONE
    ELSE ONE + PositiveSum(pos_count, neg_count)
             - NegativeSum(neg_count, pos_count)

compute_feedback_multiplier(pos_count, neg_count) ==
    IF pos_count = 0 /\ neg_count = 0 THEN ONE
    ELSE LET multiplier == ONE + PositiveSum(pos_count, neg_count)
                               - NegativeSum(neg_count, pos_count)
         IN Max(0, Min(2 * ONE, multiplier))

StatOf(feedback_stats, tag) ==
    IF tag \in DOMAIN feedback_stats THEN feedback_stats[tag]
    ELSE [positive_count |-> 0, negative_count |-> 0]

\* max(weights.values()) if weights else 1.0
MaxWeight(weights) ==
    IF DOMAIN weights = {} THEN ONE ELSE SetMax(weights, DOMAIN weights)

\* {k: v / max_weight for k, v in weights.items()}
DivideBy(weights, max_weight) ==
    [t \in DOMAIN weights |-> (weights[t] * ONE) \div max_weight]

\* the first normalisation, unconditional
NormaliseBase(weights) == DivideBy(weights, MaxWeight(weights))

\* the normalisation under "if max_weight > 0"
NormaliseIfPositive(weights) ==
    IF MaxWeight(weights) > 0 THEN DivideBy(weights, MaxWeight(weights))
    ELSE weights

\* tag_weights[tag] = base_weight * feedback_multiplier
ApplyFeedback(base_weights, feedback_stats) ==
    [t \in DOMAIN base_weights |->
        (base_weights[t]
         * compute_feedback_multiplier(
               StatOf(feedback_stats, t).positive_count,
               StatOf(feedback_stats, t).negative_count)) \div ONE]

\* tag weights that are not normalised again after the multiplier
compute_tag_weights_unnormalised(favorite_galleries, feedback_stats) ==
    IF favorite_galleries = {} THEN <<>>
    ELSE ApplyFeedback(NormaliseBase(Force(RawBaseWeights(favorite_galleries))),
                       feedback_stats)

\* tag weights whose table also takes in the tags that have feedback
\* statistics but occur on no favorite
compute_tag_weights_with_feedback_tags(favorite_galleries, feedback_stats) ==
    IF favorite_galleries = {} THEN <<>>
    ELSE NormaliseIfPositive(
             Force(ApplyFeedback(
                 [t \in DOMAIN RawBaseWeights(favorite_galleries)
                        \cup DOMAIN feedback_stats |->
                     IF t \in DOMAIN RawBaseWeights(favorite_galleries)
                     THEN NormaliseBase(
                              Force(RawBaseWeights(favorite_galleries)))[t]
                     ELSE ONE],
                 feedback_stats)))

compute_tag_weights_from_favorites(favorite_galleries, feedback_stats) ==
    IF favorite_galleries = {} THEN <<>>
    ELSE NormaliseIfPositive(
             Force(ApplyFeedback(
                 NormaliseBase(Force(RawBaseWeights(favorite_galleries))),
                 feedback_stats)))

get_base_weights_for_sync(favorite_galleries) ==
    IF favorite_galleries = {} THEN <<>>
    ELSE NormaliseIfPositive(Force(RawBaseWeights(favorite_galleries)))

\* TfidfVectorizer(min_df=1, max_df=0.8): one token per tag.  The fit raises
\* when max_df * n_docs < min_df or when no term survives the pruning.
DocFreq(galleries) ==
    [t \in UNION {Range(g.tags) : g \in galleries} |->
        Cardinality({g \in galleries : t \in Range(g.tags)})]

Vocabulary(galleries) ==
    {t \in DOMAIN DocFreq(galleries) :
        10 * DocFreq(galleries)[t] <= 8 * Cardinality(galleries)}

FitSucceeds(galleries) ==
    /\ 8 * Cardinality(galleries) >= 10
    /\ Vocabulary(galleries) # {}

\* idf = ln((1 + n) / (1 + df)) + 1
Idf(galleries) ==
    [t \in Vocabulary(galleries) |->
        LnTable[1 + Cardinality(galleries)]
        - LnTable[1 + DocFreq(galleries)[t]] + ONE]

\* one l2-normalised tf-idf row
TfIdfRow(tags, idf) ==
    LET raw == Force([t \in DOMAIN idf |-> Occurrences(t, tags) * (idf[t] \div 10)])
        norm == ISqrt(SetSum([t \in DOMAIN idf |-> raw[t] * raw[t]], DOMAIN idf))
    IN [t \in DOMAIN idf |-> IF norm = 0 THEN 0 ELSE (raw[t] * ONE) \div norm]

\* tag_matrix.mean(axis=0)
MeanVector(galleries, idf) ==
    LET rows == Force([g \in galleries |-> Force(TfIdfRow(g.tags, idf))])
    IN [t \in DOMAIN idf |->
        SetSum([g \in galleries |-> rows[g][t]], galleries)
        \div Cardinality(galleries)]

cosine_similarity(u, c) ==
    LET nu == ISqrt(SetSum([t \in DOMAIN u |-> u[t] * u[t]], DOMAIN u))
        nc == ISqrt(SetSum([t \in DOMAIN u |-> c[t] * c[t]], DOMAIN u))
        dot == SetSum([t \in DOMAIN u |-> u[t] * c[t]], DOMAIN u)
    IN IF nu = 0 \/ nc = 0 THEN 0 ELSE ((dot \div nu) * ONE) \div nc

\* fit_transform and the mean of the rows, given the idf of the fit
FitTransform(eng, favorite_galleries, idf) ==
    [eng EXCEPT
        !.vectorizer = [state |-> "Fitted", idf |-> idf],
        !.user_vector = [built |-> TRUE,
                         v |-> MeanVector(favorite_galleries, idf)]]

build_user_profile(eng, favorite_galleries, feedback_stats) ==
    [(IF FitSucceeds(favorite_galleries)
      THEN FitTransform(eng, favorite_galleries,
                        Force(Idf(favorite_galleries)))
      ELSE [eng EXCEPT !.vectorizer = [state |-> "Unfitted", idf |-> <<>>]])
     EXCEPT !.user_tag_weights =
                compute_tag_weights_from_favorites(
                    favorite_galleries, feedback_stats)]

compute_tag_similarity(eng, candidate_tags) ==
    LET weights == eng.user_tag_weights
        intersection == Range(candidate_tags) \cap DOMAIN weights
        total_user_weight == SetSum(weights, DOMAIN weights)
        weighted_intersection == SetSum(weights, intersection)
        jaccard_score ==
            Min(ONE, (weighted_intersection * ONE) \div total_user_weight)
    IN IF DOMAIN weights = {} \/ candidate_tags = <<>> THEN 0
       ELSE IF intersection = {} THEN 0
       ELSE IF total_user_weight <= 0 THEN 0
       ELSE IF eng.vectorizer.state = "Fitted" /\ eng.user_vector.built
       THEN (6 * jaccard_score
             + 4 * cosine_similarity(
                       eng.user_vector.v,
                       TfIdfRow(candidate_tags, eng.vectorizer.idf))) \div 10
       ELSE jaccard_score

\* explain_similarity(candidate_tags, top_n): the matched tags by descending
\* weight; sorted() is stable, so tags of equal weight stay in the iteration
\* order of the set of matched tags, which is the parameter order
explain_similarity(eng, candidate_tags, top_n, order) ==
    LET matched == Range(candidate_tags) \cap DOMAIN eng.user_tag_weights
        listed == SelectSeq(order, LAMBDA t : t \in matched)
        sorted_matches == SortDesc(listed, eng.user_tag_weights)
    IN SubSeq(sorted_matches, 1, Min(Len(sorted_matches), top_n))

----------------------------------------------------------------------------
\* UploaderAnalyzer

\* build_uploader_profile writes the new weights into the dict it already
\* holds and then normalises the whole dict
build_uploader_profile(uploader_weights, favorite_galleries) ==
    LET uploaders == {g.uploader : g \in {h \in favorite_galleries : h.uploader # ""}}
        count == [u \in uploaders |->
                     Cardinality({g \in favorite_galleries : g.uploader = u})]
        total_favorites == Cardinality(favorite_galleries)
        frequency_weight ==
            [u \in uploaders |->
                IF count[u] >= 5
                THEN (((count[u] * ONE) \div total_favorites) * 15) \div 10
                ELSE IF count[u] >= 3
                THEN (((count[u] * ONE) \div total_favorites) * 12) \div 10
                ELSE (count[u] * ONE) \div total_favorites]
        merged == [u \in DOMAIN uploader_weights \cup uploaders |->
                      IF u \in uploaders THEN frequency_weight[u]
                      ELSE uploader_weights[u]]
        max_weight == IF DOMAIN merged = {} THEN ONE
                      ELSE SetMax(merged, DOMAIN merged)
    IN IF total_favorites = 0 THEN uploader_weights
       ELSE [u \in DOMAIN merged |-> (merged[u] * ONE) \div max_weight]

unknown_uploader_score == 1000

compute_uploader_score(eng, candidate_uploader) ==
    IF candidate_uploader = "" \/ DOMAIN eng.uploader_weights = {} THEN 0
    ELSE IF candidate_uploader \in DOMAIN eng.uploader_weights
    THEN eng.uploader_weights[candidate_uploader]
    ELSE unknown_uploader_score

----------------------------------------------------------------------------
\* ContentScorer

IsLanguageTag(tag) == tag.ns \in {"language", "lang"}

\* int(np.percentile(values, q)), q = 10 * q10: linear interpolation
Percentile(sorted, q10) ==
    LET pos == q10 * (Len(sorted) - 1)
        lo == (pos \div 10) + 1
        rem == pos % 10
    IN IF rem = 0 THEN sorted[lo]
       ELSE sorted[lo] + (rem * (sorted[lo + 1] - sorted[lo])) \div 10

build_quality_profile(eng, favorite_galleries) ==
    LET n == Cardinality(favorite_galleries)
        avg == SetSum([g \in favorite_galleries |-> g.rating],
                      favorite_galleries) \div n
        variance == SetSum([g \in favorite_galleries |-> Sq(g.rating - avg)],
                           favorite_galleries) \div n
        filecounts == SortedValues([g \in favorite_galleries |-> g.filecount],
                                   favorite_galleries)
        language_counter ==
            [t \in {u \in UNION {Range(g.tags) : g \in favorite_galleries} :
                       IsLanguageTag(u)} |->
                SetSum([g \in favorite_galleries |-> Occurrences(t, g.tags)],
                       favorite_galleries)]
        total == SetSum(language_counter, DOMAIN language_counter)
        categories == {g.category : g \in favorite_galleries} \ {""}
    IN IF n = 0 THEN eng
       ELSE [eng EXCEPT
           !.avg_rating = avg,
           !.rating_std = IF n > 1 THEN ISqrt(variance * ONE) ELSE ONE \div 2,
           !.filecount_range = <<Percentile(filecounts, 1),
                                 Percentile(filecounts, 9)>>,
           !.preferred_languages =
               IF total > 0
               THEN [t \in DOMAIN language_counter |->
                        (language_counter[t] * ONE) \div total]
               ELSE @,
           !.preferred_categories =
               [c \in categories |->
                   (Cardinality({g \in favorite_galleries : g.category = c})
                    * ONE) \div n]]

compute_quality_score(eng, gallery) ==
    LET rating_diff == gallery.rating - eng.avg_rating
        rating_score ==
            IF eng.avg_rating > 0
            THEN ExpNeg((Sq(rating_diff) * ONE) \div (2 * Sq(eng.rating_std)))
            ELSE gallery.rating \div 5
        filecount_score ==
            IF eng.filecount_range[1] <= gallery.filecount
               /\ gallery.filecount <= eng.filecount_range[2] THEN ONE
            ELSE IF gallery.filecount < eng.filecount_range[1]
            THEN (7 * ONE) \div 10
            ELSE (8 * ONE) \div 10
    IN (rating_score + filecount_score) \div 2

compute_content_score(eng, gallery) ==
    LET known == Range(gallery.tags) \cap DOMAIN eng.preferred_languages
        language_score ==
            IF known = {} THEN 0 ELSE SetMax(eng.preferred_languages, known)
        category_score ==
            IF gallery.category \in DOMAIN eng.preferred_categories
            THEN eng.preferred_categories[gallery.category]
            ELSE (3 * ONE) \div 10
    IN ((IF language_score > 0 THEN language_score ELSE ONE \div 2)
        + category_score) \div 2

\* exp(-0.002 * days), clamped to [0.2, 1.0]
compute_recency_score(gallery, today) ==
    LET days_diff == today - gallery.posted
    IN IF days_diff < 0 THEN ONE
       ELSE Max((2 * ONE) \div 10, Min(ONE, ExpNeg(20 * days_diff)))

----------------------------------------------------------------------------
\* Database (user_preferences, feedback, favorites)

get_all_tag_feedback_stats(db) ==
    [t \in DOMAIN db.user_preferences |->
        [positive_count |-> db.user_preferences[t].positive_count,
         negative_count |-> db.user_preferences[t].negative_count]]

HasFeedbackCount(prefs, tag) ==
    /\ tag \in DOMAIN prefs
    /\ (prefs[tag].positive_count > 0 \/ prefs[tag].negative_count > 0)

\* a sync that writes the base weight of every tag, feedback or not
sync_tag_preferences_overwrite(db, tag_weights) ==
    LET prefs == db.user_preferences
    IN [db EXCEPT !.user_preferences =
        [t \in DOMAIN prefs \cup DOMAIN tag_weights |->
            IF t \notin DOMAIN tag_weights THEN prefs[t]
            ELSE [weight |-> tag_weights[t],
                  positive_count |->
                      IF t \in DOMAIN prefs THEN prefs[t].positive_count ELSE 0,
                  negative_count |->
                      IF t \in DOMAIN prefs THEN prefs[t].negative_count ELSE 0]]]

sync_tag_preferences(db, tag_weights) ==
    LET prefs == db.user_preferences
    IN [db EXCEPT !.user_preferences =
        [t \in DOMAIN prefs \cup DOMAIN tag_weights |->
            IF t \notin DOMAIN tag_weights THEN prefs[t]
            ELSE IF HasFeedbackCount(prefs, t) THEN prefs[t]
            ELSE [weight |-> tag_weights[t],
                  positive_count |->
                      IF t \in DOMAIN prefs THEN prefs[t].positive_count ELSE 0,
                  negative_count |->
                      IF t \in DOMAIN prefs THEN prefs[t].negative_count ELSE 0]]]

update_tag_preference(db, tag, weight, positive_count, negative_count) ==
    LET prefs == db.user_preferences
    IN [db EXCEPT !.user_preferences =
        [t \in DOMAIN prefs \cup {tag} |->
            IF t = tag
            THEN [weight |-> weight, positive_count |-> positive_count,
                  negative_count |-> negative_count]
            ELSE prefs[t]]]

\* the feedback table is a set of rows [gid, rating]; gid is its PRIMARY KEY
FeedbackRows(db, gid) == {row \in db.feedback : row.gid = gid}

FeedbackGids(db) == {row.gid : row \in db.feedback}

\* SELECT rating FROM feedback WHERE gid = ?
Ratings(db, gid) == {row.rating : row \in FeedbackRows(db, gid)}

\* a plain INSERT, which leaves the row the gallery already has
add_feedback_insert(db, gid, rating) ==
    [db EXCEPT !.feedback = @ \cup {[gid |-> gid, rating |-> rating]}]

\* INSERT OR REPLACE: the row with the same primary key is deleted first
add_feedback(db, gid, rating) ==
    [db EXCEPT !.feedback =
        {row \in @ : row.gid # gid} \cup {[gid |-> gid, rating |-> rating]}]

----------------------------------------------------------------------------
\* FeedbackLearner

\* a learner that does not read the row it replaces
update_tag_weight_fresh(db, tag, is_positive) ==
    update_tag_preference(db, tag, ONE,
                          IF is_positive THEN 1 ELSE 0,
                          IF is_positive THEN 0 ELSE 1)

update_tag_weight(db, tag, is_positive) ==
    LET known == tag \in DOMAIN db.user_preferences
        base_weight == IF known THEN db.user_preferences[tag].weight ELSE ONE
        pos_count == IF known THEN db.user_preferences[tag].positive_count ELSE 0
        neg_count == IF known THEN db.user_preferences[tag].negative_count ELSE 0
    IN update_tag_preference(db, tag, base_weight,
                             IF is_positive THEN pos_count + 1 ELSE pos_count,
                             IF is_positive THEN neg_count ELSE neg_count + 1)

RECURSIVE LearnTags(_, _, _)
LearnTags(db, tags, is_positive) ==
    IF tags = <<>> THEN db
    ELSE LearnTags(update_tag_weight(db, Head(tags), is_positive),
                   Tail(tags), is_positive)

\* a learner that counts every feedback as a like
learn_from_feedback_always_positive(db, rating, gallery_info) ==
    LearnTags(db, gallery_info.tags, TRUE)

learn_from_feedback(db, rating, gallery_info) ==
    LearnTags(db, gallery_info.tags, rating > 0)

\* the loop of batch_learn_from_history over the feedback records: a record
\* whose gallery is not in gallery_dict is passed over
RECURSIVE LearnHistory(_, _)
LearnHistory(db, all_feedback) ==
    IF all_feedback = <<>> THEN db
    ELSE LearnHistory(
             IF Resolves(Head(all_feedback).gid)
             THEN learn_from_feedback(db, Head(all_feedback).rating,
                                      ehdb[Head(all_feedback).gid])
             ELSE db,
             Tail(all_feedback))

\* a replay that sets the counts back to 0 before it learns
batch_learn_from_history_from_zero(db, all_feedback) ==
    LearnHistory(
        [db EXCEPT !.user_preferences =
            [t \in DOMAIN @ |-> [@[t] EXCEPT !.positive_count = 0,
                                             !.negative_count = 0]]],
        all_feedback)

\* batch_learn_from_history(ehdb_database); all_feedback is the list
\* get_all_feedback() returns, in the order of the SELECT
batch_learn_from_history(db, all_feedback) ==
    LearnHistory(db, all_feedback)

----------------------------------------------------------------------------
\* RecommendationEngine

\* RecommendationEngine.__init__ and the constructors of the analyzers
NewEngine ==
    [user_tag_weights |-> <<>>,
     vectorizer |-> [state |-> "None", idf |-> <<>>],
     user_vector |-> [built |-> FALSE, v |-> <<>>],
     uploader_weights |-> <<>>,
     avg_rating |-> 0,
     rating_std |-> 0,
     filecount_range |-> <<0, 10000>>,
     preferred_languages |-> <<>>,
     preferred_categories |-> <<>>,
     is_initialized |-> FALSE]

tag_weight == 4000
uploader_weight == 2000
quality_weight == 2000
content_weight == 1500
recency_weight == 500
min_score_threshold == 7000

\* config["recommendation_expiry_days"]
recommendation_expiry_days == 2

\* an initialize() that syncs the weights held in memory before the build
initialize_sync_before_build(db, eng) ==
    LET favorite_gids == db.favorites
        favorite_galleries == get_galleries_by_ids(favorite_gids)
        feedback_stats == get_all_tag_feedback_stats(db)
        eng1 == build_user_profile(eng, favorite_galleries, feedback_stats)
        eng2 == [eng1 EXCEPT !.uploader_weights =
                    build_uploader_profile(@, favorite_galleries)]
        eng3 == build_quality_profile(eng2, favorite_galleries)
    IN IF favorite_gids = {} \/ favorite_galleries = {}
       THEN [db |-> db, eng |-> [eng EXCEPT !.is_initialized = TRUE]]
       ELSE [db |-> sync_tag_preferences(db, eng.user_tag_weights),
             eng |-> [eng3 EXCEPT !.is_initialized = TRUE]]

\* an initialize() that empties the profiles when no favorite resolves
initialize_clears_profile(db, eng) ==
    LET favorite_gids == db.favorites
        favorite_galleries == get_galleries_by_ids(favorite_gids)
        feedback_stats == get_all_tag_feedback_stats(db)
        eng1 == build_user_profile(eng, favorite_galleries, feedback_stats)
        eng2 == [eng1 EXCEPT !.uploader_weights =
                    build_uploader_profile(@, favorite_galleries)]
        eng3 == build_quality_profile(eng2, favorite_galleries)
    IN IF favorite_gids = {} \/ favorite_galleries = {}
       THEN [db |-> db, eng |-> [NewEngine EXCEPT !.is_initialized = TRUE]]
       ELSE [db |-> sync_tag_preferences(
                        db, get_base_weights_for_sync(favorite_galleries)),
             eng |-> [eng3 EXCEPT !.is_initialized = TRUE]]

\* initialize(): the database and the engine after the call
initialize(db, eng) ==
    LET favorite_gids == db.favorites
        favorite_galleries == get_galleries_by_ids(favorite_gids)
        feedback_stats == get_all_tag_feedback_stats(db)
        eng1 == build_user_profile(eng, favorite_galleries, feedback_stats)
        eng2 == [eng1 EXCEPT !.uploader_weights =
                    build_uploader_profile(@, favorite_galleries)]
        eng3 == build_quality_profile(eng2, favorite_galleries)
    IN IF favorite_gids = {} \/ favorite_galleries = {}
       THEN [db |-> db, eng |-> [eng EXCEPT !.is_initialized = TRUE]]
       ELSE [db |-> sync_tag_preferences(
                        db, get_base_weights_for_sync(favorite_galleries)),
             eng |-> [eng3 EXCEPT !.is_initialized = TRUE]]

\* the weighted total of the five component scores, on a built profile
TotalScore(eng, gallery, today) ==
    (compute_tag_similarity(eng, gallery.tags) * tag_weight
     + compute_uploader_score(eng, gallery.uploader) * uploader_weight
     + compute_quality_score(eng, gallery) * quality_weight
     + compute_content_score(eng, gallery) * content_weight
     + compute_recency_score(gallery, today) * recency_weight) \div ONE

\* round(x, 3) on a value with four decimals, halves to the even neighbour
Round3(x) ==
    LET q == x \div 10
        rem == x % 10
    IN 10 * (IF rem > 5 \/ (rem = 5 /\ q % 2 = 1) THEN q + 1 ELSE q)

\* the detail dictionary of compute_recommendation_score on a built profile;
\* order is the iteration order of the set of matched tags
ScoreDetails(eng, gallery, today, order) ==
    [tag_score |-> Round3(compute_tag_similarity(eng, gallery.tags)),
     uploader_score |-> Round3(compute_uploader_score(eng, gallery.uploader)),
     quality_score |-> Round3(compute_quality_score(eng, gallery)),
     content_score |-> Round3(compute_content_score(eng, gallery)),
     recency_score |-> Round3(compute_recency_score(gallery, today)),
     total_score |-> Round3(TotalScore(eng, gallery, today)),
     matched_tags |-> explain_similarity(eng, gallery.tags, 5, order)]

\* the score of the gallery on the engine r.eng
Scored(r, gallery, today) ==
    [db |-> r.db, eng |-> r.eng, score |-> TotalScore(r.eng, gallery, today)]

\* a scoring that never initializes the engine
compute_recommendation_score_no_init(db, eng, gallery, today) ==
    Scored([db |-> db, eng |-> eng], gallery, today)

\* compute_recommendation_score(gallery): initializes the engine first when
\* it is not initialized yet; the total score with the database and the
\* engine after the call
compute_recommendation_score(db, eng, gallery, today) ==
    Scored(IF eng.is_initialized THEN [db |-> db, eng |-> eng]
           ELSE initialize(db, eng),
           gallery, today)

\* the detail dictionary compute_recommendation_score returns with the total
compute_recommendation_details(db, eng, gallery, today, order) ==
    ScoreDetails(compute_recommendation_score(db, eng, gallery, today).eng,
                 gallery, today, order)

is_favorited(db, gid) == gid \in db.favorites

\* a filter that skips the liked galleries only
has_feedback_liked_only(db, gid) ==
    \E row \in FeedbackRows(db, gid) : row.rating > 0

\* get_feedback(gid) is not None
has_feedback(db, gid) == FeedbackRows(db, gid) # {}

\* a window that still covers the day it ends
is_recommended_inclusive(db, gid, expiry_days, today) ==
    IF expiry_days # NoDays
    THEN \E row \in db.recommendation_history :
            /\ row.gid = gid
            /\ row.recommended_time >= today - expiry_days
    ELSE \E row \in db.recommendation_history : row.gid = gid

\* is_recommended(gid, expiry_days)
is_recommended(db, gid, expiry_days, today) ==
    IF expiry_days # NoDays
    THEN \E row \in db.recommendation_history :
            /\ row.gid = gid
            /\ row.recommended_time > today - expiry_days
    ELSE \E row \in db.recommendation_history : row.gid = gid

\* filters that apply the expiry window to the manual queries too
PassesFilters_expiry_for_all(db, gid, source, today) ==
    /\ ~is_favorited(db, gid)
    /\ ~has_feedback(db, gid)
    /\ ~is_recommended(db, gid, recommendation_expiry_days, today)

\* the candidate passes the three filters that precede the scoring
PassesFilters(db, gid, source, today) ==
    /\ ~is_favorited(db, gid)
    /\ ~has_feedback(db, gid)
    /\ ~(source # "manual"
         /\ is_recommended(db, gid, recommendation_expiry_days, today))

\* the list with the scored gallery r appended unless r.score is below the
\* threshold
AppendIfAbove(recommendations, gid, r) ==
    IF r.score < min_score_threshold THEN recommendations
    ELSE Append(recommendations, [gid |-> gid, score |-> r.score])

\* the loop of _filter_and_score_galleries over the candidates, in order;
\* r is the database and the engine so far
RECURSIVE FilterLoop(_, _, _, _, _)
RECURSIVE FilterScored(_, _, _, _, _)
FilterLoop(r, galleries, source, today, recommendations) ==
    IF galleries = <<>>
    THEN [db |-> r.db, eng |-> r.eng, recommendations |-> recommendations]
    ELSE IF ~PassesFilters(r.db, Head(galleries), source, today)
    THEN FilterLoop(r, Tail(galleries), source, today, recommendations)
    ELSE FilterScored(
             compute_recommendation_score(
                 r.db, r.eng, ehdb[Head(galleries)], today),
             galleries, source, today, recommendations)

\* the rest of the loop after the head of the candidates was scored as r
FilterScored(r, galleries, source, today, recommendations) ==
    FilterLoop(r, Tail(galleries), source, today,
               AppendIfAbove(recommendations, Head(galleries), r))

\* a sort by descending score that puts equal scores in reverse order
SortByScore_ties_reversed(recommendations) ==
    LET n == Len(recommendations)
        reversed == [i \in 1 .. n |-> recommendations[n + 1 - i]]
        order == SortDesc([i \in 1 .. n |-> i],
                          [i \in 1 .. n |-> reversed[i].score])
    IN [i \in 1 .. n |-> reversed[order[i]]]

\* recommendations.sort(key=lambda x: x["score"], reverse=True)
SortByScore(recommendations) ==
    LET order == SortDesc([i \in DOMAIN recommendations |-> i],
                          [i \in DOMAIN recommendations |->
                              recommendations[i].score])
    IN [i \in DOMAIN recommendations |-> recommendations[order[i]]]

\* r with its recommendations sorted
Sorted(r) ==
    [db |-> r.db, eng |-> r.eng,
     recommendations |-> SortByScore(r.recommendations)]

filter_and_score_galleries(db, eng, galleries, source, today) ==
    Sorted(FilterLoop([db |-> db, eng |-> eng], galleries, source, today, <<>>))

\* a handler that rebuilds the profile whether or not the gallery resolves
handle_feedback_rebuild_always(db, eng, gid, rating) ==
    LET db1 == add_feedback(db, gid, rating)
    IN IF ~Resolves(gid)
       THEN initialize(db1, eng)
       ELSE initialize(learn_from_feedback(db1, rating, ehdb[gid]), eng)

\* a handler that rebuilds the profile before the learner has counted
handle_feedback_rebuild_first(db, eng, gid, rating) ==
    LET db1 == add_feedback(db, gid, rating)
    IN IF ~Resolves(gid)
       THEN [db |-> db1, eng |-> eng]
       ELSE LET r == initialize(db1, eng)
            IN [db |-> learn_from_feedback(r.db, rating, ehdb[gid]),
                eng |-> r.eng]

\* a handler that counts per feedback record: the learner is passed over
\* when the gallery already has a record
handle_feedback_counts_per_record(db, eng, gid, rating) ==
    LET db1 == add_feedback(db, gid, rating)
    IN IF ~Resolves(gid)
       THEN [db |-> db1, eng |-> eng]
       ELSE IF FeedbackRows(db, gid) # {}
       THEN initialize(db1, eng)
       ELSE initialize(learn_from_feedback(db1, rating, ehdb[gid]), eng)

\* handle_feedback(gid, rating, source): the feedback is saved; an
\* unresolvable gallery ends the call before the learner and the rebuild
handle_feedback(db, eng, gid, rating) ==
    LET db1 == add_feedback(db, gid, rating)
    IN IF ~Resolves(gid)
       THEN [db |-> db1, eng |-> eng]
       ELSE initialize(learn_from_feedback(db1, rating, ehdb[gid]), eng)

\* get_random_galleries(count, min_rating): the pool, sampled in any order
\* (the count the handlers ask for exceeds the size of the store)
PoolIds(min_rating) == {g \in DOMAIN ehdb : ehdb[g].rating >= min_rating}

\* a set of gallery ids as a list, by descending key
OrderBy(D, key) == SortDesc(SortedValues([g \in D |-> g], D), key)

\* get_new_galleries(since_timestamp, limit): since is in hours
get_new_galleries(since_hours, limit) ==
    LET found == {g \in DOMAIN ehdb : ehdb[g].posted * 24 > since_hours}
        ordered == OrderBy(found, [g \in found |-> ehdb[g].posted])
    IN SubSeq(ordered, 1, Min(Len(ordered), limit))

\* search_similar_galleries(tags, uploader, limit)
search_similar_galleries(tags, uploader, limit) ==
    LET found == {g \in DOMAIN ehdb :
                     /\ Range(ehdb[g].tags) \cap Range(tags) # {}
                     /\ (uploader # "" => ehdb[g].uploader = uploader)}
        tag_match_count ==
            [g \in found |->
                Cardinality({i \in DOMAIN ehdb[g].tags :
                                ehdb[g].tags[i] \in Range(tags)})]
        ordered == OrderBy(found, [g \in found |->
                               tag_match_count[g] * 100000 + ehdb[g].rating])
    IN SubSeq(ordered, 1, Min(Len(ordered), limit))

recommend_new_galleries(db, eng, since_hours, limit, today) ==
    filter_and_score_galleries(
        db, eng, get_new_galleries(since_hours, limit), "new", today)

recommend_from_pool(db, eng, candidates, today) ==
    filter_and_score_galleries(db, eng, candidates, "old", today)

\* recommendations[:limit]
FirstN(recommendations, limit) ==
    SubSeq(recommendations, 1, Min(Len(recommendations), limit))

\* r with its recommendations cut to the first limit
Truncated(r, limit) ==
    [db |-> r.db, eng |-> r.eng,
     recommendations |-> FirstN(r.recommendations, limit)]

recommend_similar(db, eng, gid, limit, today) ==
    IF ~Resolves(gid)
    THEN [db |-> db, eng |-> eng, recommendations |-> <<>>]
    ELSE Truncated(
             filter_and_score_galleries(
                 db, eng,
                 SelectSeq(search_similar_galleries(
                               ehdb[gid].tags, ehdb[gid].uploader, limit * 3),
                           LAMBDA g : g # gid),
                 "manual", today),
             limit)

\* add_recommendation(gid, ...): one row of recommendation_history; nothing
\* reads the row id, so the table is the set of its (gid, time) rows
add_recommendation(db, gid, today) ==
    [db EXCEPT !.recommendation_history =
        @ \cup {[gid |-> gid, recommended_time |-> today]}]

\* the handlers record every recommendation they send
RECURSIVE AddRecommendations(_, _, _)
AddRecommendations(db, recommendations, today) ==
    IF recommendations = <<>> THEN db
    ELSE AddRecommendations(
             add_recommendation(db, Head(recommendations).gid, today),
             Tail(recommendations), today)

Gids(recommendations) ==
    [i \in DOMAIN recommendations |-> recommendations[i].gid]

\* the handler records the first limit recommendations of the answer r
Recorded(r, limit, today) ==
    [db |-> AddRecommendations(r.db, FirstN(r.recommendations, limit), today),
     eng |-> r.eng]

----------------------------------------------------------------------------
\* FavoritesCrawler

\* None as a cursor, and the empty next_token of the first request; any
\* other cursor is the number of the page it leads to
NoCursor == 0

\* the gallery ids the upstream favorites pages list
ListedIds == 1 .. 4

\* a gallery link /g/<gid>/<token>/ as the pattern matches it
Link(gid, token) == <<gid, token>>

\* the two links a listed gallery has in the HTML, from its thumbnail and
\* from its title
Listed(gid) == <<Link(gid, "a"), Link(gid, "a")>>

\* pages that each carry the cursor of the next page, the last one the
\* cursor last_next
Paged(pages, last_next) ==
    [i \in DOMAIN pages |->
        [links |-> pages[i],
         next |-> IF i < Len(pages) THEN i + 1 ELSE last_next]]

\* The upstream listings: the gallery links of each page in page order and
\* the cursor the page carries.  The last page carries no cursor, or one
\* that leads back to an earlier page or to the page itself; one page lists
\* a gallery under two tokens.
Listings ==
    {Paged(<<>>, NoCursor),
     Paged(<< Listed(1) \o Listed(2) >>, NoCursor),
     Paged(<< Listed(1) \o Listed(2), Listed(3), Listed(4) >>, NoCursor),
     Paged(<< Listed(2) \o Listed(1), <<>>, Listed(3) >>, NoCursor),
     Paged(<< Listed(3) \o Listed(1), Listed(1) \o Listed(2) >>, NoCursor),
     Paged(<< Listed(1), Listed(2) >>, 1),
     Paged(<< Listed(3) >>, 1),
     Paged(<< <<Link(1, "a"), Link(2, "a"), Link(1, "b"),
                Link(1, "a"), Link(2, "a")>> >>, NoCursor)}

\* response.text for the URL with this cursor
Response(listing, next_token) ==
    LET page == IF next_token = NoCursor THEN 1 ELSE next_token
    IN IF page \in DOMAIN listing
       THEN [links |-> listing[page].links, next |-> listing[page].next]
       ELSE [links |-> <<>>, next |-> NoCursor]

\* the first occurrence of every link, in page order
RECURSIVE Deduplicate(_)
Deduplicate(matches) ==
    IF matches = <<>> THEN <<>>
    ELSE LET rest == Deduplicate(SubSeq(matches, 1, Len(matches) - 1))
             last == matches[Len(matches)]
         IN IF last \in Range(rest) THEN rest ELSE Append(rest, last)

\* {"items": [], "next_token": None}
EmptyPage == [items |-> <<>>, next_token |-> NoCursor]

\* a parser that returns every link it matched
ParsePage_every_match(html) ==
    IF html.links = <<>> THEN EmptyPage
    ELSE [items |-> html.links, next_token |-> html.next]

\* fetch_favorites_page after the request returned the text html
ParsePage(html) ==
    IF html.links = <<>> THEN EmptyPage
    ELSE [items |-> Deduplicate(html.links), next_token |-> html.next]

\* a handler that gives up by raising the error of the last attempt
AfterFailure_reraise(attempt, retry_times) ==
    IF attempt < retry_times - 1 THEN "retry" ELSE "raise"

\* the except branch of _make_request: attempt is the loop index
AfterFailure(attempt, retry_times) ==
    IF attempt < retry_times - 1 THEN "retry" ELSE "return None"

\* a filter that keeps every item of the page
PageNew_all_items(items, known_gids) == items

\* page_new = [g for g in result["items"] if g[0] not in known_gids]
PageNew(items, known_gids) ==
    SelectSeq(items, LAMBDA g : g[1] \notin known_gids)

\* the crawler between two crawls
IdleCrawler ==
    [listing |-> <<>>, retry_times |-> 3,
     pc |-> "idle", mode |-> "none", known_gids |-> {}, max_pages |-> 0,
     next_token |-> NoCursor, page_num |-> 0, galleries |-> <<>>,
     attempt |-> 0, fetches |-> <<>>,
     cancel_signalled |-> FALSE,
     full_result |-> [returned |-> FALSE, items |-> <<>>]]

\* the locals of fetch_all_favorites and fetch_new_favorites at loop entry
StartCrawl(c, mode, known_gids, max_pages) ==
    [c EXCEPT !.pc = "loop", !.mode = mode, !.known_gids = known_gids,
              !.max_pages = max_pages, !.next_token = NoCursor,
              !.page_num = 0, !.galleries = <<>>, !.attempt = 0,
              !.fetches = <<>>, !.cancel_signalled = FALSE]

\* the call fetch_favorites_page(favcat, next_token) entered: one more entry
\* in the list of page fetches
BeginFetch(c) ==
    [c EXCEPT !.pc = "request", !.attempt = 0,
              !.fetches = Append(@, [next_token |-> c.next_token,
                                     outcomes |-> <<>>,
                                     completed |-> FALSE,
                                     result |-> EmptyPage,
                                     cancelled |-> c.cancel_signalled])]

\* one more request attempt with this outcome
Attempted(c, outcome) ==
    [c EXCEPT !.attempt = @ + 1,
              !.fetches[Len(c.fetches)].outcomes = Append(@, outcome)]

\* a loop body that goes on without counting the page
AfterPage_no_page_count(c, result) ==
    LET logged == [c EXCEPT !.fetches[Len(c.fetches)].completed = TRUE,
                            !.fetches[Len(c.fetches)].result = result]
        page_new == IF c.mode = "incremental"
                    THEN PageNew(result.items, c.known_gids)
                    ELSE result.items
    IN IF result.items = <<>> \/ page_new = <<>>
       THEN [logged EXCEPT !.pc = "done"]
       ELSE IF result.next_token = NoCursor
       THEN [logged EXCEPT !.pc = "done", !.galleries = @ \o page_new]
       ELSE [logged EXCEPT !.pc = "loop", !.galleries = @ \o page_new,
                           !.next_token = result.next_token]

\* a loop body that passes over a page without new favorites
AfterPage_skips_known_pages(c, result) ==
    LET logged == [c EXCEPT !.fetches[Len(c.fetches)].completed = TRUE,
                            !.fetches[Len(c.fetches)].result = result]
        page_new == IF c.mode = "incremental"
                    THEN PageNew(result.items, c.known_gids)
                    ELSE result.items
    IN IF result.items = <<>>
       THEN [logged EXCEPT !.pc = "done"]
       ELSE IF result.next_token = NoCursor
       THEN [logged EXCEPT !.pc = "done", !.galleries = @ \o page_new]
       ELSE [logged EXCEPT !.pc = "loop", !.galleries = @ \o page_new,
                           !.next_token = result.next_token,
                           !.page_num = @ + 1]

\* a loop body that counts a page only when its cursor leads on to a page
\* other than the one just fetched
AfterPage_counts_new_cursors_only(c, result) ==
    LET logged == [c EXCEPT !.fetches[Len(c.fetches)].completed = TRUE,
                            !.fetches[Len(c.fetches)].result = result]
        page_new == IF c.mode = "incremental"
                    THEN PageNew(result.items, c.known_gids)
                    ELSE result.items
    IN IF result.items = <<>> \/ page_new = <<>>
       THEN [logged EXCEPT !.pc = "done"]
       ELSE IF result.next_token = NoCursor
       THEN [logged EXCEPT !.pc = "done", !.galleries = @ \o page_new]
       ELSE [logged EXCEPT !.pc = "loop", !.galleries = @ \o page_new,
                           !.next_token = result.next_token,
                           !.page_num = IF result.next_token = c.next_token
                                        THEN @ ELSE @ + 1]

\* the loop body after fetch_favorites_page returned result: the break on a
\* page without items, on a page without new favorites (incremental), and on
\* a page without cursor
AfterPage(c, result) ==
    LET logged == [c EXCEPT !.fetches[Len(c.fetches)].completed = TRUE,
                            !.fetches[Len(c.fetches)].result = result]
        page_new == IF c.mode = "incremental"
                    THEN PageNew(result.items, c.known_gids)
                    ELSE result.items
    IN IF result.items = <<>> \/ page_new = <<>>
       THEN [logged EXCEPT !.pc = "done"]
       ELSE IF result.next_token = NoCursor
       THEN [logged EXCEPT !.pc = "done", !.galleries = @ \o page_new]
       ELSE [logged EXCEPT !.pc = "loop", !.galleries = @ \o page_new,
                           !.next_token = result.next_token,
                           !.page_num = @ + 1]

----------------------------------------------------------------------------
\* The event loop: handlers, callbacks and timer tasks

\* one step of a coroutine: the call it makes, the engine or crawler
\* operation the call belongs to with its part, and whether the step is an
\* await expression
Call(name, op, part, awaited) ==
    [name |-> name, op |-> op, part |-> part, awaited |-> awaited]

\* initialize(): the profiles are built in memory, then the base weights
\* are synced to the table
InitializeCalls(op, first) ==
    <<Call("build_profiles", op, first, FALSE),
      Call("sync_tag_preferences", op, first + 1, FALSE)>>

\* the coroutines the event loop runs, as the calls they make in order
Program ==
    [task_sync_favorites |->
         <<Call("fetch_new_favorites", "fetch_new_favorites", 1, FALSE),
           Call("add_favorite", "none", 1, FALSE)>>
         \o InitializeCalls("initialize", 1),
     handle_callback |->
         <<Call("query.answer", "none", 1, TRUE),
           Call("add_feedback", "handle_feedback", 1, FALSE),
           Call("learn_from_feedback", "handle_feedback", 2, FALSE)>>
         \o InitializeCalls("handle_feedback", 3)
         \o <<Call("query.edit_message_reply_markup", "none", 1, TRUE)>>,
     cmd_sync |->
         <<Call("_require_access", "none", 1, TRUE),
           Call("reply_text", "none", 1, TRUE),
           Call("fetch_new_favorites", "fetch_new_favorites", 1, FALSE),
           Call("add_favorite", "none", 1, FALSE)>>
         \o InitializeCalls("initialize", 1)
         \o <<Call("reply_text", "none", 1, TRUE)>>,
     cmd_recommend |->
         <<Call("_require_access", "none", 1, TRUE),
           Call("reply_text", "none", 1, TRUE),
           Call("recommend_from_pool", "recommend_from_pool", 1, FALSE),
           Call("add_recommendation", "none", 1, FALSE),
           Call("send_recommendation", "none", 1, TRUE),
           Call("reply_text", "none", 1, TRUE)>>]

Flows == DOMAIN Program

\* a coroutine that hands the event loop back inside the engine operations
\* that rebuild the profile, as one that awaits them in a worker thread does
Yields_inside_rebuild(call) ==
    call.awaited \/ call.op \in {"initialize", "handle_feedback"}

\* the coroutine hands the event loop back at its await expressions only
Yields(call) == call.awaited

\* the profile in memory and the tag preference table after the call: a
\* rebuild is under way from the write of the feedback counts, or from the
\* build of the profiles, up to the sync of the table
ProfileAfter(profile, call) ==
    IF call.name \in {"learn_from_feedback", "build_profiles"}
    THEN "rebuilding"
    ELSE IF call.name = "sync_tag_preferences" THEN "rebuilt"
    ELSE profile

\* no coroutine is started
IdleFlows ==
    [pc |-> [f \in Flows |-> 0], running |-> "none", profile |-> "rebuilt"]

\* no call of handle_feedback was made yet
NoCalls == [g \in DOMAIN ehdb |-> 0]

\* handle_feedback(gid, rating, source) was called: one more call on a
\* gallery the content store resolves
CountCall(made, gid) ==
    IF Resolves(gid) THEN [made EXCEPT ![gid] = @ + 1] ELSE made

----------------------------------------------------------------------------
\* The coroutines that send recommendations

PushFlows == {"cmd_recommend", "cmd_new", "task_check_new_galleries"}

\* no coroutine is started and nothing was sent
IdlePush ==
    [pc |-> [f \in PushFlows |-> "idle"],
     pending |-> [f \in PushFlows |-> <<>>],
     batch |-> [f \in PushFlows |-> <<>>],
     sent |-> <<>>]

----------------------------------------------------------------------------
\* The state machine

\* the gallery ids the upstream favorites list can contain
UpstreamIds == {1, 3, 4}

Init ==
    /\ database = [favorites |-> {},
                   feedback |-> {},
                   recommendation_history |-> {},
                   user_preferences |-> <<>>]
    /\ engine = NewEngine
    /\ now = 0
    /\ crawler = IdleCrawler
    /\ flows = IdleFlows
    /\ calls = NoCalls
    /\ push = IdlePush

TotalCount(db) ==
    SetSum([t \in DOMAIN db.user_preferences |->
               db.user_preferences[t].positive_count
               + db.user_preferences[t].negative_count],
           DOMAIN db.user_preferences)

\* the feedback counts stay within the bound of the model
CountsBelowBound(gid) ==
    Resolves(gid) => TotalCount(database) + Len(ehdb[gid].tags) <= MaxCount

\* main.py: the engine is initialized at startup
Initialize ==
    LET r == initialize(database, engine)
    IN /\ database' = r.db
       /\ engine' = r.eng
       /\ UNCHANGED <<now, crawler, flows, calls, push>>

\* a restart of the process: the tables persist, the engine is built anew
Restart ==
    /\ engine' = NewEngine
    /\ UNCHANGED <<database, now, crawler, flows, calls, push>>

\* handle_callback: the like and dislike buttons, on a gallery of gids
HandleFeedback(gids) ==
    \E gid \in gids, rating \in {1, -1} :
        /\ CountsBelowBound(gid)
        /\ LET r == handle_feedback(database, engine, gid, rating)
           IN /\ database' = r.db
              /\ engine' = r.eng
        /\ calls' = CountCall(calls, gid)
        /\ UNCHANGED <<now, crawler, flows, push>>

\* cmd_sync: the crawler returns favorites that are not known yet
CmdSync(upstream) ==
    \E new_favorites \in SUBSET (upstream \ database.favorites) :
        LET db1 == [database EXCEPT !.favorites = @ \cup new_favorites]
            r == initialize(db1, engine)
        IN /\ database' = r.db
           /\ engine' = r.eng
           /\ UNCHANGED <<now, crawler, flows, calls, push>>

\* task_sync_favorites: as cmd_sync, initialize() only with new favorites
TaskSyncFavorites(upstream) ==
    \E new_favorites \in SUBSET (upstream \ database.favorites) :
        LET db1 == [database EXCEPT !.favorites = @ \cup new_favorites]
            r == IF new_favorites # {} THEN initialize(db1, engine)
                 ELSE [db |-> db1, eng |-> engine]
        IN /\ database' = r.db
           /\ engine' = r.eng
           /\ UNCHANGED <<now, crawler, flows, calls, push>>

\* clear_favorites()
clear_favorites(db) == [db EXCEPT !.favorites = {}]

\* add_favorite(gid, token, added_time) for each item of the crawl: INSERT OR
\* REPLACE on the gid
AddFavorites(db, all_favorites) ==
    [db EXCEPT !.favorites = @ \cup Range(all_favorites)]

cmd_fullsync_keeps_favorites_on_empty_crawl(db, eng, all_favorites) ==
    LET refilled == IF all_favorites = <<>> THEN db
                    ELSE AddFavorites(clear_favorites(db), all_favorites)
        r == initialize(refilled, eng)
    IN [db |-> r.db, eng |-> r.eng, count |-> Len(all_favorites)]

\* cmd_fullsync, after the crawl returned the list all_favorites: clear the
\* favorites, refill them, initialize(), report count=len(all_favorites)
cmd_fullsync(db, eng, all_favorites) ==
    LET refilled == AddFavorites(clear_favorites(db), all_favorites)
        r == initialize(refilled, eng)
    IN [db |-> r.db, eng |-> r.eng, count |-> Len(all_favorites)]

\* the lists a full crawl of the upstream favorites can return
FullCrawls(upstream) == UNION {Orderings(found) : found \in SUBSET upstream}

\* cmd_fullsync: clear the favorites and refill them from the crawl
CmdFullSync(upstream) ==
    \E all_favorites \in FullCrawls(upstream) :
        LET r == cmd_fullsync(database, engine, all_favorites)
        IN /\ database' = r.db
           /\ engine' = r.eng
           /\ UNCHANGED <<now, crawler, flows, calls, push>>

\* cmd_recommend: sample the pool, record and send the top of the list
CmdRecommend ==
    \E candidates \in Orderings(PoolIds(3 * ONE)) :
        LET r == Recorded(
                     recommend_from_pool(database, engine, candidates, now),
                     5, now)
        IN /\ database' = r.db
           /\ engine' = r.eng
           /\ UNCHANGED <<now, crawler, flows, calls, push>>

\* the values since_timestamp can have (in hours): the time of an earlier
\* check, or a day before now when there was none
SinceValues == {t * 24 : t \in (0 - 1) .. now}

\* cmd_new: the galleries posted since the last check
CmdNew ==
    \E since \in SinceValues :
        LET r == Recorded(
                     recommend_new_galleries(database, engine, since, 200, now),
                     10, now)
        IN /\ database' = r.db
           /\ engine' = r.eng
           /\ UNCHANGED <<now, crawler, flows, calls, push>>

\* cmd_related and the "similar" button: nothing is recorded
CmdRelated ==
    \E gid \in GIDS :
        LET r == recommend_similar(database, engine, gid, 5, now)
        IN /\ database' = r.db
           /\ engine' = r.eng
           /\ UNCHANGED <<now, crawler, flows, calls, push>>

\* a day passes
Tick ==
    /\ now < MaxTime
    /\ now' = now + 1
    /\ UNCHANGED <<database, engine, crawler, flows, calls, push>>

\* the galleries the user rates and the favorites the user keeps in Spec
RatedIds == {2}
KeptIds == {1, 3}

Next ==
    \/ Initialize
    \/ HandleFeedback(RatedIds)
    \/ CmdSync(KeptIds)
    \/ CmdFullSync(KeptIds)
    \/ CmdRecommend
    \/ CmdNew
    \/ CmdRelated
    \/ Tick

Spec == Init /\ [][Next]_vars

\* the profile and the feedback loop alone: every gallery id, restarts, no
\* queries
NextProfile ==
    \/ Initialize
    \/ Restart
    \/ HandleFeedback(GIDS)
    \/ CmdSync(UpstreamIds)
    \/ TaskSyncFavorites(UpstreamIds)
    \/ CmdFullSync(UpstreamIds)

SpecProfile == Init /\ [][NextProfile]_vars

\* The coroutines that record and send recommendations.  Each runs on the one
\* event loop and is suspended at every await of send_recommendation; what
\* lies between two awaits is one step.
immediate_push_threshold == 8500

should_push_immediately(score) == score >= immediate_push_threshold

\* the handlers of commands: the application handles one update at a time
CommandFlows == {"cmd_recommend", "cmd_new"}

\* what the coroutine f gets from the engine when it starts
PushAnswers(f) ==
    IF f = "cmd_recommend"
    THEN {Truncated(recommend_from_pool(database, engine, candidates, now), 5) :
             candidates \in Orderings(PoolIds(3 * ONE))}
    ELSE IF f = "cmd_new"
    THEN {Truncated(
              recommend_new_galleries(database, engine, since, 200, now), 10) :
             since \in SinceValues}
    ELSE {recommend_new_galleries(database, engine, since, 200, now) :
             since \in SinceValues}

\* the recommendations f records and sends one by one
immediate_recs(f, recommendations) ==
    IF f \in CommandFlows THEN recommendations
    ELSE SelectSeq(recommendations,
                   LAMBDA rec : should_push_immediately(rec.score))

\* the recommendations f records at its end without sending them
batch_recs(f, recommendations) ==
    IF f \in CommandFlows THEN <<>>
    ELSE SelectSeq(recommendations,
                   LAMBDA rec : ~should_push_immediately(rec.score))

\* add_recommendation(rec) then await send_recommendation(rec), by f: the
\* head of to_send is recorded and sent, f is suspended in the send
RecordAndSend(f, db, to_send, batch) ==
    /\ database' = add_recommendation(db, Head(to_send).gid, now)
    /\ push' = [push EXCEPT
                   !.pc[f] = "sending",
                   !.pending[f] = Tail(to_send),
                   !.batch[f] = batch,
                   !.sent = Append(@, [gid |-> Head(to_send).gid,
                                       time |-> now])]

\* f has the answer r: with nothing to send it records its batch and ends at
\* once, else it records and sends its first recommendation
Started(f, r) ==
    /\ engine' = r.eng
    /\ IF immediate_recs(f, r.recommendations) = <<>>
       THEN /\ database' = AddRecommendations(
                               r.db, batch_recs(f, r.recommendations), now)
            /\ push' = push
       ELSE RecordAndSend(f, r.db,
                          immediate_recs(f, r.recommendations),
                          batch_recs(f, r.recommendations))
    /\ UNCHANGED <<now, crawler, flows, calls>>

\* f starts: it filters and scores its candidates against the tables as they
\* are now
Begin(f) ==
    /\ push.pc[f] = "idle"
    /\ f \in CommandFlows => \A g \in CommandFlows : push.pc[g] = "idle"
    /\ \E r \in PushAnswers(f) : Started(f, r)

\* the send f awaited has returned: f records and sends its next
\* recommendation, or records its batch and ends
Resume(f) ==
    /\ push.pc[f] = "sending"
    /\ IF push.pending[f] # <<>>
       THEN RecordAndSend(f, database, push.pending[f], push.batch[f])
       ELSE /\ database' = AddRecommendations(database, push.batch[f], now)
            /\ push' = [push EXCEPT !.pc[f] = "idle", !.batch[f] = <<>>]
    /\ UNCHANGED <<engine, now, crawler, flows, calls>>

\* the favorites of the user of the coroutines
PushFavorites == {1, 3}

NextPush ==
    \/ CmdSync(PushFavorites)
    \/ \E f \in PushFlows : Begin(f)
    \/ \E f \in PushFlows : Resume(f)
    \/ Tick

SpecPush == Init /\ [][NextPush]_vars

\* The tag weight functions alone.  Their inputs are a favorites list and a
\* map of per-tag feedback counts: the favorites are any resolvable galleries,
\* the counts (likes, dislikes) sit on any set of tags.
InitTag ==
    \E favorites \in SUBSET DOMAIN ehdb, tags \in SUBSET AllTags,
       likes \in 0 .. MaxLikes, dislikes \in 0 .. MaxDislikes :
        /\ database = [favorites |-> favorites,
                       feedback |-> {},
                       recommendation_history |-> {},
                       user_preferences |->
                           [t \in tags |-> [weight |-> ONE,
                                            positive_count |-> likes,
                                            negative_count |-> dislikes]]]
        /\ engine = NewEngine
        /\ now = 0
        /\ crawler = IdleCrawler
        /\ flows = IdleFlows
        /\ calls = NoCalls
        /\ push = IdlePush
    /\ calls = NoCalls
    /\ push = IdlePush

\* tag_analyzer.build_user_profile(favorite_galleries, feedback_stats)
BuildUserProfile ==
    /\ get_galleries_by_ids(database.favorites) # {}
    /\ engine' = build_user_profile(
                     engine, get_galleries_by_ids(database.favorites),
                     get_all_tag_feedback_stats(database))
    /\ UNCHANGED <<database, now, crawler, flows, calls, push>>

\* sync_tag_preferences(_get_base_weights_for_sync(favorite_galleries))
SyncBaseWeights ==
    /\ get_galleries_by_ids(database.favorites) # {}
    /\ database' = sync_tag_preferences(
                       database,
                       get_base_weights_for_sync(
                           get_galleries_by_ids(database.favorites)))
    /\ UNCHANGED <<engine, now, crawler, flows, calls, push>>

NextTag ==
    \/ BuildUserProfile
    \/ SyncBaseWeights

SpecTag == InitTag /\ [][NextTag]_vars

\* The learner alone.  learn_from_feedback takes the gallery as a dictionary
\* with any list of tags: the galleries of the content store, and a gallery
\* whose tag list names a tag twice.
RepeatedTagGallery ==
    [gid |-> 6, tags |-> <<TagMisc, TagJp, TagMisc>>, uploader |-> "bob",
     rating |-> 40000, filecount |-> 10, category |-> "Doujinshi",
     posted |-> 0]

GalleryInfos == {ehdb[g] : g \in DOMAIN ehdb} \cup {RepeatedTagGallery}

\* feedback_learner.learn_from_feedback(gid, rating, gallery_info)
LearnFromFeedback ==
    \E gallery_info \in GalleryInfos, rating \in {1, -1} :
        /\ TotalCount(database) + Len(gallery_info.tags) <= MaxCount
        /\ database' = learn_from_feedback(database, rating, gallery_info)
        /\ UNCHANGED <<engine, now, crawler, flows, calls, push>>

NextLearn ==
    \/ CmdSync(UpstreamIds)
    \/ CmdFullSync(UpstreamIds)
    \/ LearnFromFeedback

SpecLearn == Init /\ [][NextLearn]_vars

\* the counts a replay may reach in the model
MaxReplay == 6

\* the counts a replay of the feedback records adds
ReplayCount(db) ==
    SetSum([row \in db.feedback |->
               IF Resolves(row.gid) THEN Len(ehdb[row.gid].tags) ELSE 0],
           db.feedback)

\* feedback_learner.batch_learn_from_history(ehdb_database): the records
\* come in the order the SELECT returns them
BatchLearnFromHistory ==
    \E all_feedback \in Orderings(database.feedback) :
        /\ TotalCount(database) + ReplayCount(database) <= MaxReplay
        /\ database' = batch_learn_from_history(database, all_feedback)
        /\ UNCHANGED <<engine, now, crawler, flows, calls, push>>

\* the feedback loop with the replay of the history
NextReplay ==
    \/ HandleFeedback(GIDS)
    \/ CmdSync(UpstreamIds)
    \/ BatchLearnFromHistory

SpecReplay == Init /\ [][NextReplay]_vars

\* the retry counts the configuration can set (retry_times, 3 when absent)
RetryValues == 0 .. MaxRetries

InitCrawl ==
    /\ database = [favorites |-> {},
                   feedback |-> {},
                   recommendation_history |-> {},
                   user_preferences |-> <<>>]
    /\ engine = NewEngine
    /\ now = 0
    /\ \E listing \in Listings, retry_times \in RetryValues :
          crawler = [IdleCrawler EXCEPT !.listing = listing,
                                        !.retry_times = retry_times]
    /\ flows = IdleFlows
    /\ calls = NoCalls
    /\ push = IdlePush

\* fetch_all_favorites(favcat, max_pages) is called
FetchAllFavorites ==
    \E max_pages \in 1 .. MaxPages :
        /\ crawler.pc = "idle"
        /\ crawler' = StartCrawl(crawler, "full", {}, max_pages)
        /\ UNCHANGED <<database, engine, now, flows, calls, push>>

\* fetch_new_favorites(known_gids, favcat, max_pages) is called
FetchNewFavorites ==
    \E known_gids \in SUBSET ListedIds, max_pages \in 1 .. MaxPages :
        /\ crawler.pc = "idle"
        /\ crawler' = StartCrawl(crawler, "incremental", known_gids, max_pages)
        /\ UNCHANGED <<database, engine, now, flows, calls, push>>

\* while page_num < max_pages: the next page is requested, or the loop ends
LoopTest ==
    /\ crawler.pc = "loop"
    /\ crawler' = IF crawler.page_num < crawler.max_pages
                  THEN BeginFetch(crawler)
                  ELSE [crawler EXCEPT !.pc = "done"]
    /\ UNCHANGED <<database, engine, now, flows, calls, push>>

\* _make_request: range(retry_times) is empty and the request returns None
\* without an attempt
RequestNotAttempted ==
    /\ crawler.pc = "request"
    /\ crawler.retry_times <= 0
    /\ crawler' = AfterPage(crawler, EmptyPage)
    /\ UNCHANGED <<database, engine, now, flows, calls, push>>

\* _make_request: session.get or raise_for_status raises
RequestFails ==
    /\ crawler.pc = "request"
    /\ crawler.attempt < crawler.retry_times
    /\ LET decision == AfterFailure(crawler.attempt, crawler.retry_times)
           failed == Attempted(crawler, "failed")
       IN crawler' = IF decision = "retry" THEN failed
                     ELSE IF decision = "return None"
                     THEN AfterPage(failed, EmptyPage)
                     ELSE [failed EXCEPT !.pc = "raised"]
    /\ UNCHANGED <<database, engine, now, flows, calls, push>>

\* _make_request: the response arrives and fetch_favorites_page parses it
RequestSucceeds ==
    /\ crawler.pc = "request"
    /\ crawler.attempt < crawler.retry_times
    /\ crawler' = AfterPage(
                      Attempted(crawler, "ok"),
                      ParsePage(Response(
                          crawler.listing,
                          crawler.fetches[Len(crawler.fetches)].next_token)))
    /\ UNCHANGED <<database, engine, now, flows, calls, push>>

\* return all_galleries / return new_galleries
Return ==
    /\ crawler.pc = "done"
    /\ crawler' =
          [IdleCrawler EXCEPT
              !.listing = crawler.listing,
              !.retry_times = crawler.retry_times,
              !.full_result =
                  IF crawler.mode = "full"
                  THEN [returned |-> TRUE, items |-> crawler.galleries]
                  ELSE crawler.full_result]
    /\ UNCHANGED <<database, engine, now, flows, calls, push>>

\* the caller signals cancellation to the crawl that runs; the crawler has
\* no parameter and no attribute that takes the signal
SignalCancellation ==
    /\ crawler.pc \in {"loop", "request"}
    /\ ~crawler.cancel_signalled
    /\ crawler' = [crawler EXCEPT !.cancel_signalled = TRUE]
    /\ UNCHANGED <<database, engine, now, flows, calls, push>>

NextCrawl ==
    \/ FetchAllFavorites
    \/ FetchNewFavorites
    \/ LoopTest
    \/ RequestNotAttempted
    \/ RequestFails
    \/ RequestSucceeds
    \/ Return
    \/ SignalCancellation

SpecCrawl == InitCrawl /\ [][NextCrawl]_vars

\* The crawl as it runs on: the loops are synchronous code, and every request
\* ends with a response or with an exception, at the latest when the
\* timeout of session.get expires.  When a crawl is called is left open.
SpecCrawlLive ==
    /\ SpecCrawl
    /\ WF_vars(LoopTest)
    /\ WF_vars(RequestNotAttempted)
    /\ WF_vars(RequestFails \/ RequestSucceeds)
    /\ WF_vars(Return)

\* an update or the timer starts the coroutine
Trigger(f) ==
    /\ flows.pc[f] = 0
    /\ flows' = [flows EXCEPT !.pc[f] = 1]
    /\ UNCHANGED <<database, engine, now, crawler, calls, push>>

\* the event loop runs the coroutine f for one call: a coroutine goes on
\* until it yields, and only then the loop takes another one
Run(f) ==
    /\ flows.pc[f] > 0
    /\ flows.running \in {"none", f}
    /\ LET call == Program[f][flows.pc[f]]
           last == flows.pc[f] = Len(Program[f])
       IN flows' = [pc |-> [flows.pc EXCEPT ![f] = IF last THEN 0 ELSE @ + 1],
                    running |-> IF Yields(call) \/ last THEN "none" ELSE f,
                    profile |-> ProfileAfter(flows.profile, call)]
    /\ UNCHANGED <<database, engine, now, crawler, calls, push>>

NextFlows ==
    \E f \in Flows : Trigger(f) \/ Run(f)

InitFlows ==
    /\ database = [favorites |-> {},
                   feedback |-> {},
                   recommendation_history |-> {},
                   user_preferences |-> <<>>]
    /\ engine = NewEngine
    /\ now = 0
    /\ crawler = IdleCrawler
    /\ flows = IdleFlows
    /\ calls = NoCalls
    /\ push = IdlePush

SpecFlows == InitFlows /\ [][NextFlows]_vars

----------------------------------------------------------------------------
\* Properties

\* the gallery ids a query returns
Returned(r) == Range(Gids(r.recommendations))

\* every answer a non-manual query can give in the current state
NonManualAnswers ==
    {Returned(recommend_from_pool(database, engine, candidates, now)) :
        candidates \in Orderings(PoolIds(3 * ONE))}
    \cup {Returned(recommend_new_galleries(database, engine, since, 200, now)) :
            since \in SinceValues}

\* every answer recommend_similar can give in the current state
ManualAnswers ==
    {Returned(recommend_similar(database, engine, gid, 5, now)) : gid \in GIDS}

\* the only filter that can apply to gid is the one named: the engine is
\* built, the score passes the threshold
WouldPass(gid) ==
    /\ engine.is_initialized
    /\ TotalScore(engine, ehdb[gid], now) >= min_score_threshold

\* C1: a gallery that is in the favorites or has a feedback record, of either
\* polarity, is returned by none of recommend_from_pool,
\* recommend_new_galleries and recommend_similar, in any reachable state.
C1_FilteringInvariant ==
    \A g \in GIDS :
        (g \in database.favorites \/ g \in FeedbackGids(database))
            => \A answer \in NonManualAnswers \cup ManualAnswers : g \notin answer

\* a disliked gallery that is no favorite, is not in the history and whose
\* score passes the threshold, next to a favorite
C1_Witness ==
    /\ Ratings(database, 2) = {-1}
    /\ 2 \notin database.favorites
    /\ 1 \in database.favorites
    /\ database.recommendation_history = {}
    /\ WouldPass(2)

\* the times at which gid was recorded in the recommendation history
RecordedTimes(gid) ==
    {row.recommended_time :
        row \in {r \in database.recommendation_history : r.gid = gid}}

\* C2: a gallery recorded in the recommendation history at time T, with the
\* expiry window W, is returned by no pool or new-item query before T + W;
\* once now >= T + W for its records (T the most recent one) the history no
\* longer holds it back: a candidate that is no favorite, has no feedback and
\* passes the threshold is returned by such a query.
C2_ExpiryInvariant ==
    \A g \in DOMAIN ehdb :
        RecordedTimes(g) # {} =>
            /\ (\E T \in RecordedTimes(g) : now < T + recommendation_expiry_days)
                   => \A answer \in NonManualAnswers : g \notin answer
            /\ (/\ \A T \in RecordedTimes(g) :
                        now >= T + recommendation_expiry_days
                /\ g \notin database.favorites
                /\ g \notin FeedbackGids(database)
                /\ WouldPass(g))
                   => /\ \A candidates \in Orderings(PoolIds(3 * ONE)) :
                            g \in Range(candidates) =>
                                g \in Returned(recommend_from_pool(
                                             database, engine, candidates, now))
                      /\ \A since \in SinceValues :
                            g \in Range(get_new_galleries(since, 200)) =>
                                g \in Returned(recommend_new_galleries(
                                             database, engine, since, 200, now))

\* a gallery recorded at time 0 was returned and recorded again at time W,
\* and is now held back by the second record
C2_Witness ==
    \E g \in DOMAIN ehdb :
        /\ now = recommendation_expiry_days
        /\ RecordedTimes(g) = {0, recommendation_expiry_days}
        /\ g \in PoolIds(3 * ONE)
        /\ g \notin database.favorites
        /\ g \notin FeedbackGids(database)
        /\ WouldPass(g)

\* the gallery ids the content store cannot resolve
UnresolvableIds == GIDS \ DOMAIN ehdb

\* the favorites the content store resolves, in the current state
ResolvedFavorites == get_galleries_by_ids(database.favorites)

\* the feedback counts of a tag in a table of preferences
CountsOf(prefs, t) ==
    IF t \in DOMAIN prefs
    THEN [positive_count |-> prefs[t].positive_count,
          negative_count |-> prefs[t].negative_count]
    ELSE [positive_count |-> 0, negative_count |-> 0]

C4_SyncKeepsFeedbackRows ==
    \A favorites \in SUBSET UpstreamIds :
        LET before == database.user_preferences
            after == initialize([database EXCEPT !.favorites = favorites],
                                engine).db.user_preferences
        IN /\ DOMAIN before \subseteq DOMAIN after
           /\ \A t \in DOMAIN before :
                  HasFeedbackCount(before, t) => after[t] = before[t]
           /\ \A t \in DOMAIN after :
                  ~HasFeedbackCount(before, t) =>
                      /\ after[t].positive_count = 0
                      /\ after[t].negative_count = 0

\* a tag with feedback sits on a resolved favorite with a persisted weight
\* other than the base weight the sync computes for it
C4_Witness ==
    /\ engine.is_initialized
    /\ ResolvedFavorites # {}
    /\ \E t \in DOMAIN get_base_weights_for_sync(ResolvedFavorites) :
          /\ HasFeedbackCount(database.user_preferences, t)
          /\ database.user_preferences[t].weight
                 # get_base_weights_for_sync(ResolvedFavorites)[t]
    /\ \E t \in DOMAIN get_base_weights_for_sync(ResolvedFavorites) :
          /\ t \in DOMAIN database.user_preferences
          /\ ~HasFeedbackCount(database.user_preferences, t)

\* C5: in every step (handle_feedback, initialize, a restart, an incremental
\* sync, a full resync) every tag keeps its row, and neither its
\* positive_count nor its negative_count decreases.
C5_CountsNeverDecrease ==
    [][\A t \in DOMAIN database.user_preferences :
          /\ t \in DOMAIN database'.user_preferences
          /\ database'.user_preferences[t].positive_count
                 >= database.user_preferences[t].positive_count
          /\ database'.user_preferences[t].negative_count
                 >= database.user_preferences[t].negative_count]_vars

\* a tag with likes and dislikes after the favorites were emptied by a full
\* resync and the profile was initialized again
C5_Witness ==
    /\ database.favorites = {}
    /\ engine.is_initialized
    /\ engine.user_tag_weights # <<>>
    /\ \E t \in DOMAIN database.user_preferences :
          /\ database.user_preferences[t].positive_count > 0
          /\ database.user_preferences[t].negative_count > 0

\* C6: for any favorites, a second initialize() right after the first leaves
\* the persisted preferences (weights and counts) and the tag weights in
\* memory as the first left them.
C6_InitializeIdempotent ==
    \A favorites \in SUBSET UpstreamIds :
        LET first == initialize([database EXCEPT !.favorites = favorites],
                                engine)
            second == initialize(first.db, first.eng)
        IN /\ second.db.user_preferences = first.db.user_preferences
           /\ second.eng.user_tag_weights = first.eng.user_tag_weights

\* an initialized engine over resolved favorites whose tags are partly with
\* and partly without feedback, and whose weights in memory differ from the
\* base weights the sync writes
C6_Witness ==
    /\ engine.is_initialized
    /\ ResolvedFavorites # {}
    /\ engine.user_tag_weights # get_base_weights_for_sync(ResolvedFavorites)
    /\ \E t \in DOMAIN engine.user_tag_weights :
          HasFeedbackCount(database.user_preferences, t)
    /\ \E t \in DOMAIN engine.user_tag_weights :
          /\ t \in DOMAIN database.user_preferences
          /\ ~HasFeedbackCount(database.user_preferences, t)

CountsIncremented(before, after, gallery, rating) ==
    \A t \in Range(gallery.tags) :
        /\ t \in DOMAIN after
        /\ after[t].positive_count =
              CountsOf(before, t).positive_count
              + (IF rating > 0 THEN Occurrences(t, gallery.tags) ELSE 0)
        /\ after[t].negative_count =
              CountsOf(before, t).negative_count
              + (IF rating > 0 THEN 0 ELSE Occurrences(t, gallery.tags))

\* C10 (as the source has it): when handle_feedback returns for a resolvable
\* gallery the feedback record is stored, every tag of the gallery has had
\* its count incremented and initialize() has run after that; with at least
\* one favorite that resolves, the tag weights in memory are the ones computed
\* from the current favorites and the updated counts; with none, the tag
\* weights in memory are left as they were.
C10_FeedbackSynchronous ==
    \A gid \in DOMAIN ehdb, rating \in {1, -1} :
        LET r == handle_feedback(database, engine, gid, rating)
            favorite_galleries == get_galleries_by_ids(r.db.favorites)
        IN /\ Ratings(r.db, gid) = {rating}
           /\ CountsIncremented(database.user_preferences,
                                r.db.user_preferences, ehdb[gid], rating)
           /\ r.eng.is_initialized
           /\ r.eng.user_tag_weights =
                  IF favorite_galleries # {}
                  THEN compute_tag_weights_from_favorites(
                           favorite_galleries,
                           get_all_tag_feedback_stats(r.db))
                  ELSE engine.user_tag_weights

\* C10 as the specification states it: the record is stored, the counts are
\* incremented, and the tag weights in memory have been rebuilt from the
\* current favorites and the updated counts, whatever the favorites are.
C10_ProfileAlwaysRebuilt ==
    \A gid \in DOMAIN ehdb, rating \in {1, -1} :
        LET r == handle_feedback(database, engine, gid, rating)
        IN /\ Ratings(r.db, gid) = {rating}
           /\ CountsIncremented(database.user_preferences,
                                r.db.user_preferences, ehdb[gid], rating)
           /\ r.eng.user_tag_weights =
                  compute_tag_weights_from_favorites(
                      get_galleries_by_ids(r.db.favorites),
                      get_all_tag_feedback_stats(r.db))

\* feedback on a resolvable gallery was handled over resolved favorites, and
\* the tag weights in memory are the ones of the updated counts, which differ
\* from the weights without feedback
C10_Witness ==
    /\ DOMAIN ehdb \cap FeedbackGids(database) # {}
    /\ ResolvedFavorites # {}
    /\ engine.is_initialized
    /\ engine.user_tag_weights =
          compute_tag_weights_from_favorites(
              ResolvedFavorites, get_all_tag_feedback_stats(database))
    /\ engine.user_tag_weights #
          compute_tag_weights_from_favorites(ResolvedFavorites, <<>>)

\* the tag weight table and the base weight table of the current inputs
TagWeightTable ==
    compute_tag_weights_from_favorites(
        ResolvedFavorites, get_all_tag_feedback_stats(database))

BaseWeightTable == get_base_weights_for_sync(ResolvedFavorites)

\* the profile in memory was built from the current inputs
ProfileBuilt == engine.vectorizer.state # "None"

\* C8 (as the source has it): the largest weight of a non-empty table of
\* compute_tag_weights_from_favorites is 1.0 whenever some weight of it is
\* positive, and the table is all zeros otherwise; the largest weight of a
\* non-empty base weight table is 1.0.
C8_MaxWeightIsOne ==
    /\ ProfileBuilt => engine.user_tag_weights = TagWeightTable
    /\ DOMAIN TagWeightTable # {} =>
          IF \E t \in DOMAIN TagWeightTable : TagWeightTable[t] > 0
          THEN SetMax(TagWeightTable, DOMAIN TagWeightTable) = ONE
          ELSE \A t \in DOMAIN TagWeightTable : TagWeightTable[t] = 0
    /\ DOMAIN BaseWeightTable # {} =>
          SetMax(BaseWeightTable, DOMAIN BaseWeightTable) = ONE

\* C8 as the specification states it: the largest weight of every non-empty
\* tag weight table is 1.0.
C8_NonEmptyMaxIsOne ==
    /\ DOMAIN TagWeightTable # {} =>
          SetMax(TagWeightTable, DOMAIN TagWeightTable) = ONE
    /\ DOMAIN BaseWeightTable # {} =>
          SetMax(BaseWeightTable, DOMAIN BaseWeightTable) = ONE

\* a built profile in which the feedback brought one tag down to 0 and
\* another tag holds the weight 1.0
C8_Witness ==
    /\ ProfileBuilt
    /\ \E t \in DOMAIN engine.user_tag_weights :
          /\ engine.user_tag_weights[t] = 0
          /\ HasFeedbackCount(database.user_preferences, t)
    /\ \E t \in DOMAIN engine.user_tag_weights :
          engine.user_tag_weights[t] = ONE

\* C9: for the counts p, n of every tag, m(p + 1, n) >= m(p, n),
\* m(p, n + 1) <= m(p, n) and 0.0 <= m(p, n) <= 2.0; m(0, 0) = 1.0 and
\* m(1, 0) = 1.10.
C9_MultiplierMonotone ==
    \A t \in DOMAIN database.user_preferences :
        LET p == database.user_preferences[t].positive_count
            n == database.user_preferences[t].negative_count
        IN /\ compute_feedback_multiplier(p + 1, n)
                  >= compute_feedback_multiplier(p, n)
           /\ compute_feedback_multiplier(p, n + 1)
                  <= compute_feedback_multiplier(p, n)
           /\ 0 <= compute_feedback_multiplier(p, n)
           /\ compute_feedback_multiplier(p, n) <= 2 * ONE
           /\ (p = 0 /\ n = 0) => compute_feedback_multiplier(p, n) = ONE
           /\ (p = 1 /\ n = 0) =>
                  compute_feedback_multiplier(p, n) = (11 * ONE) \div 10

\* a built profile over a favorite tag with one like and no dislike, and a
\* favorite tag without feedback below it
C9_Witness ==
    /\ ProfileBuilt
    /\ \E t \in DOMAIN engine.user_tag_weights :
          /\ t \in DOMAIN database.user_preferences
          /\ database.user_preferences[t].positive_count = 1
          /\ database.user_preferences[t].negative_count = 0
          /\ engine.user_tag_weights[t] = ONE
    /\ \E t \in DOMAIN engine.user_tag_weights :
          /\ t \notin DOMAIN database.user_preferences
          /\ engine.user_tag_weights[t] < ONE

----------------------------------------------------------------------------
\* C11: in every reachable state the feedback table holds at most one record
\* per gallery id, and after handle_feedback(gid, rating) the one record of
\* gid carries the rating of this call, whatever record the gallery had
\* before; the records of the other galleries are left as they were.
C11_LastWriteWins ==
    /\ \A g \in GIDS : Cardinality(FeedbackRows(database, g)) <= 1
    /\ \A gid \in GIDS, rating \in {1, -1} :
          LET r == handle_feedback(database, engine, gid, rating)
          IN /\ FeedbackRows(r.db, gid) = {[gid |-> gid, rating |-> rating]}
             /\ \A g \in GIDS \ {gid} :
                    FeedbackRows(r.db, g) = FeedbackRows(database, g)

\* gallery 3, the only gallery with the tag other:misc, was liked and
\* disliked: the second call replaced the record of the first
C11_Witness ==
    /\ Cardinality(FeedbackRows(database, 3)) = 1
    /\ CountsOf(database.user_preferences, TagMisc).positive_count > 0
    /\ CountsOf(database.user_preferences, TagMisc).negative_count > 0

\* the in-memory profiles of an engine: everything but the initialized flag
ProfilesOf(eng) == [eng EXCEPT !.is_initialized = TRUE]

\* C12 (as the source has it): on an initialized engine
\* compute_recommendation_score changes neither the engine nor the database;
\* on an engine that is not initialized the first call runs initialize(),
\* which builds the profiles and syncs the tag preferences; in both cases a
\* second call for the same gallery changes nothing and returns the same
\* total and the same detail dictionary as the first.
C12_ScoreRepeatable ==
    \A g \in DOMAIN ehdb :
        LET first == compute_recommendation_score(database, engine, ehdb[g], now)
            again == compute_recommendation_score(first.db, first.eng,
                                                  ehdb[g], now)
        IN /\ engine.is_initialized =>
                  first.db = database /\ first.eng = engine
           /\ ~engine.is_initialized =>
                  /\ first.db = initialize(database, engine).db
                  /\ first.eng = initialize(database, engine).eng
           /\ again.db = first.db
           /\ again.eng = first.eng
           /\ again.score = first.score
           /\ \A order \in Orderings(Range(ehdb[g].tags)) :
                  compute_recommendation_details(first.db, first.eng,
                                                 ehdb[g], now, order)
                      = compute_recommendation_details(database, engine,
                                                       ehdb[g], now, order)

\* C12 as the specification states it: no call of
\* compute_recommendation_score changes an in-memory profile or a persisted
\* table, the first call on an engine that is not initialized included.
C12_ScoreChangesNothing ==
    \A g \in DOMAIN ehdb :
        LET first == compute_recommendation_score(database, engine, ehdb[g], now)
        IN /\ first.db = database
           /\ ProfilesOf(first.eng) = ProfilesOf(engine)

\* an engine that is not initialized over favorites that resolve: the first
\* scoring call builds the profile, and the gallery matches a tag of it
C12_Witness ==
    /\ ~engine.is_initialized
    /\ ResolvedFavorites # {}
    /\ \E g \in DOMAIN ehdb :
          compute_recommendation_details(
              database, engine, ehdb[g], now, ehdb[g].tags).matched_tags # <<>>

\* the candidates recommend_similar scores for the gallery gid
SimilarCandidates(gid) ==
    SelectSeq(search_similar_galleries(ehdb[gid].tags, ehdb[gid].uploader, 15),
              LAMBDA g : g # gid)

\* the history holds a record of gid inside the expiry window
WithinExpiryWindow(gid) ==
    \E T \in RecordedTimes(gid) : now < T + recommendation_expiry_days

\* C13: recommend_similar (source "manual") does not apply the expiry check:
\* a candidate that is no favorite, has no feedback and passes the threshold
\* is returned whatever the recommendation history holds, also inside the
\* expiry window, where no pool or new-item query returns it; a candidate
\* that is a favorite or has feedback is not returned by the manual query.
C13_ManualBypassesExpiry ==
    \A gid \in DOMAIN ehdb :
        \A c \in Range(SimilarCandidates(gid)) :
            LET answer == Returned(recommend_similar(database, engine,
                                                     gid, 5, now))
            IN /\ (c \in database.favorites \/ c \in FeedbackGids(database))
                      => c \notin answer
               /\ (/\ c \notin database.favorites
                   /\ c \notin FeedbackGids(database)
                   /\ WouldPass(c))
                      => c \in answer
               /\ WithinExpiryWindow(c)
                      => \A other \in NonManualAnswers : c \notin other

\* a gallery recorded inside the expiry window is a pool candidate and is
\* returned by recommend_similar for another gallery
C13_Witness ==
    \E gid \in DOMAIN ehdb :
        \E c \in Range(SimilarCandidates(gid)) :
            /\ WithinExpiryWindow(c)
            /\ c \in PoolIds(3 * ONE)
            /\ c \in Returned(recommend_similar(database, engine, gid, 5, now))

\* the engine the candidates are scored on
ScoringEngine ==
    IF engine.is_initialized THEN engine ELSE initialize(database, engine).eng

\* the candidate is kept by the reference result for a query of this source
Survives(g, source) ==
    /\ g \notin database.favorites
    /\ g \notin FeedbackGids(database)
    /\ (source = "manual" \/ ~WithinExpiryWindow(g))
    /\ TotalScore(ScoringEngine, ehdb[g], now) >= min_score_threshold

\* the position of the gallery in a candidate list without repetitions
PositionIn(candidates, g) == CHOOSE i \in DOMAIN candidates : candidates[i] = g

\* out is the reference result for the candidates: the survivors with their
\* scores, each once, by descending score, equal scores in candidate order
IsReference(out, candidates, source) ==
    /\ Len(out) = Cardinality({g \in Range(candidates) : Survives(g, source)})
    /\ \A g \in Range(candidates) :
          Survives(g, source) =>
              \E k \in DOMAIN out :
                  /\ out[k].gid = g
                  /\ out[k].score = TotalScore(ScoringEngine, ehdb[g], now)
    /\ \A k \in DOMAIN out :
          /\ out[k].gid \in Range(candidates)
          /\ out[k].score >= min_score_threshold
    /\ \A k, l \in DOMAIN out :
          k < l =>
              /\ out[k].score >= out[l].score
              /\ out[k].score = out[l].score =>
                     PositionIn(candidates, out[k].gid)
                         < PositionIn(candidates, out[l].gid)

\* C14: for every candidate list of a pool query, a new-item query and a
\* similar-item query, the list returned is the reference result: the
\* candidates that pass the favorite, feedback and expiry filters with a
\* score of at least the threshold, by descending score, candidates of equal
\* score in their candidate order; nothing below the threshold is returned.
C14_ReferenceResult ==
    /\ \A candidates \in Orderings(PoolIds(3 * ONE)) :
          IsReference(recommend_from_pool(database, engine, candidates,
                                          now).recommendations,
                      candidates, "old")
    /\ \A since \in SinceValues :
          IsReference(recommend_new_galleries(database, engine, since, 200,
                                              now).recommendations,
                      get_new_galleries(since, 200), "new")
    /\ \A gid \in DOMAIN ehdb :
          IsReference(recommend_similar(database, engine, gid, 5,
                                        now).recommendations,
                      SimilarCandidates(gid), "manual")

\* two pool candidates survive with the same score, and a third pool
\* candidate scores below the threshold
C14_Witness ==
    /\ \E g1, g2 \in PoolIds(3 * ONE) :
          /\ g1 # g2
          /\ Survives(g1, "old")
          /\ Survives(g2, "old")
          /\ TotalScore(ScoringEngine, ehdb[g1], now)
                = TotalScore(ScoringEngine, ehdb[g2], now)
    /\ \E g \in PoolIds(3 * ONE) :
          TotalScore(ScoringEngine, ehdb[g], now) < min_score_threshold

----------------------------------------------------------------------------
\* Properties of the crawler

\* C15: fetch_favorites_page never raises to the crawl loop; each call makes
\* at most retry_times request attempts and none after a successful one; a
\* call in which every attempt failed made all of them and returns no items
\* and no cursor; a page without items comes with no cursor; a call whose
\* request succeeded returns the parsed page.
C15_FetchPageNeverRaises ==
    /\ crawler.pc \in {"idle", "loop", "request", "done"}
    /\ \A i \in DOMAIN crawler.fetches :
          LET fetch == crawler.fetches[i]
              n == Len(fetch.outcomes)
          IN /\ n <= Max(crawler.retry_times, 0)
             /\ \A j \in 1 .. n - 1 : fetch.outcomes[j] = "failed"
             /\ fetch.completed =>
                   /\ "ok" \notin Range(fetch.outcomes) =>
                          /\ n = Max(crawler.retry_times, 0)
                          /\ fetch.result = EmptyPage
                   /\ "ok" \in Range(fetch.outcomes) =>
                          fetch.result = ParsePage(Response(crawler.listing,
                                                            fetch.next_token))
                   /\ fetch.result.items = <<>> =>
                          fetch.result.next_token = NoCursor
             /\ ~fetch.completed =>
                   /\ i = Len(crawler.fetches)
                   /\ crawler.pc = "request"
                   /\ "ok" \notin Range(fetch.outcomes)

\* a crawl whose first page arrived at the second attempt and whose second
\* page was given up after two failed attempts
C15_Witness ==
    /\ crawler.retry_times = 2
    /\ Len(crawler.fetches) = 2
    /\ crawler.fetches[1].outcomes = <<"failed", "ok">>
    /\ crawler.fetches[2].outcomes = <<"failed", "failed">>
    /\ crawler.fetches[2].completed
    /\ crawler.pc = "done"

\* the items of the fetched pages that are not known, in fetch order
RECURSIVE ConcatNew(_, _)
ConcatNew(fetches, known_gids) ==
    IF fetches = <<>> THEN <<>>
    ELSE ConcatNew(SubSeq(fetches, 1, Len(fetches) - 1), known_gids)
         \o SelectSeq(fetches[Len(fetches)].result.items,
                      LAMBDA g : g[1] \notin known_gids)

\* the number of the upstream page a fetch asked for
PageOf(fetch) == IF fetch.next_token = NoCursor THEN 1 ELSE fetch.next_token

\* C16: a full sync requests the first page with no cursor and each later
\* page with the cursor the page before it returned; it goes on only after a
\* page with items and a cursor and fetches at most max_pages pages; when it
\* returns, the last page fetched had no items or no cursor or was page
\* number max_pages, and the result is the concatenation of the items of the
\* fetched pages in fetch order.
C16_FullSyncWalksPages ==
    crawler.mode = "full" =>
        LET F == crawler.fetches
        IN /\ Len(F) <= crawler.max_pages
           /\ F # <<>> => F[1].next_token = NoCursor
           /\ \A i \in 2 .. Len(F) :
                 /\ F[i - 1].completed
                 /\ F[i - 1].result.items # <<>>
                 /\ F[i - 1].result.next_token # NoCursor
                 /\ F[i].next_token = F[i - 1].result.next_token
           /\ crawler.pc = "done" =>
                 /\ F # <<>>
                 /\ F[Len(F)].completed
                 /\ \/ F[Len(F)].result.items = <<>>
                    \/ F[Len(F)].result.next_token = NoCursor
                    \/ Len(F) = crawler.max_pages
                 /\ crawler.galleries = ConcatNew(F, {})

\* a full sync with max_pages = 2 returns the first two of three pages: the
\* second page came with a cursor that was not followed
C16_Witness ==
    /\ crawler.mode = "full"
    /\ crawler.pc = "done"
    /\ crawler.max_pages = 2
    /\ Len(crawler.fetches) = 2
    /\ crawler.fetches[2].next_token = 2
    /\ crawler.fetches[2].result.next_token = 3
    /\ crawler.galleries = <<Link(1, "a"), Link(2, "a"), Link(3, "a")>>

\* C17: an incremental sync goes past a page only if the page contributed an
\* item that is not in known_gids, so the first page that contributes none
\* is the last page fetched; every item returned is not in known_gids, and
\* the result is the concatenation of the unknown items of the fetched pages:
\* unknown items on pages after the last one fetched are not returned.
C17_IncrementalStopsAtKnownPage ==
    crawler.mode = "incremental" =>
        LET F == crawler.fetches
        IN /\ \A i \in 1 .. Len(F) - 1 :
                 /\ F[i].completed
                 /\ \E k \in DOMAIN F[i].result.items :
                        F[i].result.items[k][1] \notin crawler.known_gids
           /\ \A k \in DOMAIN crawler.galleries :
                 crawler.galleries[k][1] \notin crawler.known_gids
           /\ crawler.pc = "done" =>
                 crawler.galleries = ConcatNew(F, crawler.known_gids)

\* an incremental sync returned the new items of the first page and stopped
\* at the second page, whose items are all known, while the third page of the
\* listing holds an item that is not known
C17_Witness ==
    /\ crawler.mode = "incremental"
    /\ crawler.pc = "done"
    /\ crawler.galleries # <<>>
    /\ LET last == crawler.fetches[Len(crawler.fetches)]
       IN /\ last.completed
          /\ last.result.items # <<>>
          /\ \A k \in DOMAIN last.result.items :
                last.result.items[k][1] \in crawler.known_gids
          /\ \E page \in PageOf(last) + 1 .. Len(crawler.listing) :
                \E k \in DOMAIN crawler.listing[page].links :
                    crawler.listing[page].links[k][1]
                        \notin crawler.known_gids

\* an incremental sync has returned whose known_gids are the ids the last
\* full sync of the same listing returned
IncrementalAfterFull ==
    /\ crawler.mode = "incremental"
    /\ crawler.pc = "done"
    /\ crawler.full_result.returned
    /\ crawler.known_gids = {g[1] : g \in Range(crawler.full_result.items)}

\* C18 (as the source has it): with known_gids the ids returned by a full
\* sync of the same listing, an incremental sync returns the empty list after
\* one page fetch, provided the full sync returned an item or the first page
\* of the listing has none.
C18_IncrementalAfterFullSync ==
    (/\ IncrementalAfterFull
     /\ \/ crawler.full_result.items # <<>>
        \/ ParsePage(Response(crawler.listing, NoCursor)).items = <<>>)
        => /\ crawler.galleries = <<>>
           /\ Len(crawler.fetches) = 1

\* C18 as the specification states it: with known_gids the ids returned by
\* a full sync of the same listing, an incremental sync returns the empty
\* list after one page fetch.
C18_AlwaysEmptyInOnePage ==
    IncrementalAfterFull
        => /\ crawler.galleries = <<>>
           /\ Len(crawler.fetches) = 1

\* the full sync returned the items of three pages, and the incremental sync
\* that knows them fetched the first page and stopped there
C18_Witness ==
    /\ IncrementalAfterFull
    /\ crawler.full_result.items
          = <<Link(1, "a"), Link(2, "a"), Link(3, "a"), Link(4, "a")>>
    /\ Len(crawler.fetches) = 1
    /\ crawler.fetches[1].outcomes = <<"ok">>
    /\ crawler.fetches[1].result.items = <<Link(1, "a"), Link(2, "a")>>

\* C19: once cancellation is signalled to a running crawl, the crawl issues
\* no further page fetch.
C19_NoFetchAfterCancellation ==
    \A i \in DOMAIN crawler.fetches : ~crawler.fetches[i].cancelled

----------------------------------------------------------------------------
\* Properties of the event loop

\* the call the coroutine makes next
NextCall(f) == Program[f][flows.pc[f]]

\* the coroutine has started an engine operation and not finished it
Inside(f) == flows.pc[f] > 0 /\ NextCall(f).part > 1

\* the event loop can run the coroutine now
CanRun(f) == flows.pc[f] > 0 /\ flows.running \in {"none", f}

\* C20: with the command handlers, the button callback and the timer task
\* started in any order, at most one coroutine is inside initialize() or
\* handle_feedback(), and that coroutine holds the event loop until the
\* operation is finished; a coroutine that can run and is not inside an
\* operation itself sees the profile and the tag preference table rebuilt,
\* never in between.
C20_OperationsSerialized ==
    /\ Cardinality({f \in Flows : Inside(f)}) <= 1
    /\ \A f \in Flows : Inside(f) => flows.running = f
    /\ \A f \in Flows :
          (CanRun(f) /\ ~Inside(f)) => flows.profile = "rebuilt"

\* cmd_sync is inside initialize(), between the build and the sync, while
\* the button callback waits to call handle_feedback, the timer task waits
\* to start and cmd_recommend waits to score
C20_Witness ==
    /\ Inside("cmd_sync")
    /\ flows.profile = "rebuilding"
    /\ flows.pc["handle_callback"] = 2
    /\ flows.pc["task_sync_favorites"] = 1
    /\ flows.pc["cmd_recommend"] = 3

----------------------------------------------------------------------------
\* Properties of the learner

\* the rows of the tags outside the gallery, and the other tables, are as
\* they were
OtherRowsKept(after, gallery_info) ==
    /\ DOMAIN after.user_preferences
          = DOMAIN database.user_preferences \cup Range(gallery_info.tags)
    /\ \A t \in DOMAIN database.user_preferences \ Range(gallery_info.tags) :
          after.user_preferences[t] = database.user_preferences[t]
    /\ after.favorites = database.favorites
    /\ after.feedback = database.feedback
    /\ after.recommendation_history = database.recommendation_history

\* the stored weight of a tag of the gallery is as it was; a tag without a
\* row gets one with the weight 1.0
WeightKept(after, t) ==
    after.user_preferences[t].weight =
        IF t \in DOMAIN database.user_preferences
        THEN database.user_preferences[t].weight ELSE ONE

\* C21 (as the source has it): learn_from_feedback(gid, rating, gallery)
\* increments, for every tag on the gallery, exactly one of the counts of the
\* tag (positive_count when rating > 0, otherwise negative_count) by 1 for
\* every occurrence of the tag in the tag list of the gallery; it leaves the
\* other count and the stored weight of the tag unchanged, and changes no
\* row of a tag that is not on the gallery.
C21_LearnIncrementsPerOccurrence ==
    \A gallery_info \in GalleryInfos, rating \in {1, -1} :
        LET after == learn_from_feedback(database, rating, gallery_info)
        IN /\ CountsIncremented(database.user_preferences,
                                after.user_preferences, gallery_info, rating)
           /\ \A t \in Range(gallery_info.tags) : WeightKept(after, t)
           /\ OtherRowsKept(after, gallery_info)

\* C21 as the specification states it: the count of every tag on the
\* gallery goes up by exactly 1, whatever the tag list.
C21_LearnIncrementsByOne ==
    \A gallery_info \in GalleryInfos, rating \in {1, -1} :
        LET after == learn_from_feedback(database, rating, gallery_info)
        IN /\ \A t \in Range(gallery_info.tags) :
                  /\ t \in DOMAIN after.user_preferences
                  /\ after.user_preferences[t].positive_count =
                        CountsOf(database.user_preferences, t).positive_count
                        + (IF rating > 0 THEN 1 ELSE 0)
                  /\ after.user_preferences[t].negative_count =
                        CountsOf(database.user_preferences, t).negative_count
                        + (IF rating > 0 THEN 0 ELSE 1)
                  /\ WeightKept(after, t)
           /\ OtherRowsKept(after, gallery_info)

\* the learner has counted a dislike of the gallery that names a tag twice,
\* on top of a table the sync had filled: the tag named twice, which is on
\* no favorite, holds two dislikes and the weight 1.0, the tag named once
\* holds one dislike and kept its base weight below 1.0
C21_Witness ==
    /\ TagMisc \in DOMAIN database.user_preferences
    /\ database.user_preferences[TagMisc]
          = [weight |-> ONE, positive_count |-> 0, negative_count |-> 2]
    /\ TagJp \in DOMAIN database.user_preferences
    /\ database.user_preferences[TagJp].negative_count = 1
    /\ database.user_preferences[TagJp].positive_count = 0
    /\ database.user_preferences[TagJp].weight < ONE
    /\ TagElf \in DOMAIN database.user_preferences
    /\ ~HasFeedbackCount(database.user_preferences, TagElf)

----------------------------------------------------------------------------
\* C22: when the favorites are empty or the content store resolves none of
\* them (as they are in the current state, or after a full resync has
\* replaced them), initialize() changes no table of the database and no
\* profile in memory (the tag weights, the vector profile, the uploader
\* weights and the content profile keep the values of the previous build)
\* and marks the engine as initialized.
C22_InitializeNoOpWithoutFavorites ==
    \A favorites \in SUBSET UnresolvableIds \cup {database.favorites} :
        get_galleries_by_ids(favorites) = {} =>
            LET replaced == [database EXCEPT !.favorites = favorites]
                r == initialize(replaced, engine)
            IN /\ r.db = replaced
               /\ ProfilesOf(r.eng) = ProfilesOf(engine)
               /\ r.eng.is_initialized

\* initialize() has run over favorites that do not resolve, after a build
\* over favorites that did: the profiles of that build are still in memory
\* and the table holds a tag with feedback
C22_Witness ==
    /\ database.favorites = UnresolvableIds
    /\ engine.is_initialized
    /\ DOMAIN engine.user_tag_weights # {}
    /\ DOMAIN engine.uploader_weights # {}
    /\ engine.avg_rating > 0
    /\ \E t \in DOMAIN database.user_preferences :
          HasFeedbackCount(database.user_preferences, t)

----------------------------------------------------------------------------
\* a crawl is running
CrawlRuns == crawler.pc \in {"loop", "request", "done"}

\* C23: a crawl run, full or incremental, issues at most max_pages page
\* fetches, each page fetch makes at most retry_times request attempts, and
\* every crawl that was started returns, whatever the upstream answers:
\* cursors that lead back to an earlier page or to the same page, and
\* requests that fail at every attempt.
C23_CrawlTerminates ==
    /\ [](CrawlRuns =>
            /\ Len(crawler.fetches) <= crawler.max_pages
            /\ \A i \in DOMAIN crawler.fetches :
                  Len(crawler.fetches[i].outcomes) <= crawler.retry_times)
    /\ (CrawlRuns ~> crawler.pc = "idle")

\* a crawl over a listing whose cursor leads back to the page it came from
\* has fetched that page max_pages times, the last time after a failed
\* attempt, and has left its loop
C23_Witness ==
    /\ crawler.pc = "done"
    /\ crawler.max_pages = MaxPages
    /\ Len(crawler.fetches) = MaxPages
    /\ \A i \in DOMAIN crawler.fetches : PageOf(crawler.fetches[i]) = 1
    /\ crawler.fetches[MaxPages].result.next_token = 1
    /\ crawler.fetches[MaxPages].outcomes = <<"failed", "ok">>

----------------------------------------------------------------------------
\* the position of the first occurrence of x in the list
FirstIndex(list, x) ==
    CHOOSE i \in DOMAIN list :
        list[i] = x /\ \A j \in 1 .. i - 1 : list[j] # x

\* C24: the items a page fetch returns after a successful request are the
\* (id, token) pairs of the links of the page, each distinct pair once (no
\* two items with the same id and token), in the order of their first
\* occurrence in the page; the same id under two tokens is two items.
C24_PageDeduplicated ==
    \A i \in DOMAIN crawler.fetches :
        LET fetch == crawler.fetches[i]
            links == Response(crawler.listing, fetch.next_token).links
            items == fetch.result.items
        IN (fetch.completed /\ "ok" \in Range(fetch.outcomes)) =>
              /\ \A k, l \in DOMAIN items : items[k] = items[l] => k = l
              /\ Range(items) = Range(links)
              /\ \A k, l \in DOMAIN items :
                    k < l => FirstIndex(links, items[k])
                                 < FirstIndex(links, items[l])

\* the page that links gallery 1 under two tokens, and each link more than
\* once, was fetched: three items are returned, gallery 1 twice
C24_Witness ==
    /\ crawler.fetches # <<>>
    /\ crawler.fetches[1].completed
    /\ Len(Response(crawler.listing, NoCursor).links) = 5
    /\ crawler.fetches[1].result.items
          = <<Link(1, "a"), Link(2, "a"), Link(1, "b")>>

----------------------------------------------------------------------------
\* the feedback records with this polarity whose gallery resolves
ResolvedRecords(positive) ==
    {row \in database.feedback :
        Resolves(row.gid) /\ ((row.rating > 0) = positive)}

\* the occurrences of the tag on the galleries of the records
OccurrencesOn(t, records) ==
    SetSum([row \in records |-> Occurrences(t, ehdb[row.gid].tags)], records)

\* C25: batch_learn_from_history, whatever the order of the records, adds
\* to the counts already stored what one learn_from_feedback call per
\* feedback record with a resolvable gallery adds (the counts are not reset
\* first), passes over the records whose gallery does not resolve and goes
\* on with the records after them, keeps the stored weights, and leaves
\* the feedback records and the other tables as they were.
C25_BatchReplayOncePerRecord ==
    \A all_feedback \in Orderings(database.feedback) :
        LET after == batch_learn_from_history(database, all_feedback)
            before == database.user_preferences
            learned == UNION {Range(ehdb[row.gid].tags) :
                                 row \in ResolvedRecords(TRUE)
                                          \cup ResolvedRecords(FALSE)}
        IN /\ DOMAIN after.user_preferences = DOMAIN before \cup learned
           /\ \A t \in DOMAIN after.user_preferences :
                 /\ after.user_preferences[t].positive_count =
                       CountsOf(before, t).positive_count
                       + OccurrencesOn(t, ResolvedRecords(TRUE))
                 /\ after.user_preferences[t].negative_count =
                       CountsOf(before, t).negative_count
                       + OccurrencesOn(t, ResolvedRecords(FALSE))
                 /\ after.user_preferences[t].weight =
                       IF t \in DOMAIN before THEN before[t].weight ELSE ONE
           /\ after.feedback = database.feedback
           /\ after.favorites = database.favorites
           /\ after.recommendation_history = database.recommendation_history

\* one handle_feedback call each on galleries 1 and 3 and on the gallery
\* that does not resolve, and then one replay: the tags of galleries 1 and 3
\* hold twice the counts of the calls, a like and a dislike among them
C25_Witness ==
    /\ FeedbackGids(database) = {1, 3} \cup UnresolvableIds
    /\ calls[1] = 1 /\ calls[3] = 1 /\ calls[2] = 0 /\ calls[5] = 0
    /\ Ratings(database, 1) # Ratings(database, 3)
    /\ \A t \in {TagElf, TagJp, TagMisc} :
          /\ t \in DOMAIN database.user_preferences
          /\ database.user_preferences[t].positive_count
             + database.user_preferences[t].negative_count = 2
    /\ database.user_preferences[TagJp].weight < ONE

\* C26: no gallery is recorded and sent to the user twice within one expiry
\* window: of two messages about the same gallery, the later is sent
\* recommendation_expiry_days or more after the earlier
C26_NoDuplicateWithinWindow ==
    \A i, j \in DOMAIN push.sent :
        (/\ i < j
         /\ push.sent[i].gid = push.sent[j].gid)
        => push.sent[j].time >= push.sent[i].time + recommendation_expiry_days

\* C27: a /fullsync whose crawl returns an empty list still clears the
\* favorites table: the favorites stored before are removed, nothing is
\* re-added, and the command reports completion with 0 items
C27_EmptyFullSyncClearsFavorites ==
    LET r == cmd_fullsync(database, engine, <<>>)
    IN /\ r.db.favorites = {}
       /\ r.count = 0

\* favorites are stored and a profile is built; the empty full sync removes
\* the favorites and leaves the profile of the removed favorites in place
C27_Witness ==
    /\ database.favorites # {}
    /\ engine.is_initialized
    /\ cmd_fullsync(database, engine, <<>>).db.favorites = {}
    /\ cmd_fullsync(database, engine, <<>>).count = 0
    /\ cmd_fullsync(database, engine, <<>>).eng = engine

\* the uploaders that occur in the favorites the content store resolves
FavoriteUploaders(db) ==
    {ehdb[g].uploader : g \in {h \in db.favorites : Resolves(h)}} \ {""}

\* C28: after a profile rebuild by initialize() with non-empty resolvable
\* favorites, the uploader weight table contains exactly the uploaders that
\* occur in the resolved favorites; an uploader whose galleries a full resync
\* removed from the favorites scores as an unknown uploader
C28_UploaderTableMatchesFavorites ==
    \A all_favorites \in FullCrawls(UpstreamIds) :
        LET r == cmd_fullsync(database, engine, all_favorites)
        IN FavoriteUploaders(r.db) # {}
           => /\ DOMAIN r.eng.uploader_weights = FavoriteUploaders(r.db)
              /\ \A u \in FavoriteUploaders(database) \ FavoriteUploaders(r.db) :
                     compute_uploader_score(r.eng, u) = unknown_uploader_score

\* positive_count + negative_count of the tag
FeedbackCount(db, t) ==
    CountsOf(db.user_preferences, t).positive_count
    + CountsOf(db.user_preferences, t).negative_count

\* the handle_feedback calls made on resolvable galleries carrying the tag,
\* a call counted once per occurrence of the tag in the gallery's tag list
CallsOn(t) ==
    SetSum([g \in DOMAIN ehdb |-> calls[g] * Occurrences(t, ehdb[g].tags)],
           DOMAIN ehdb)

\* C29: tag feedback counts are accumulated per handle_feedback call, not per
\* feedback record: for every tag positive_count + negative_count equals the
\* number of handle_feedback calls made on resolvable galleries carrying the
\* tag, and handle_feedback on a resolvable gallery that already has a record
\* replaces the record and increments the counts of the gallery's tags again
C29_CountsPerCall ==
    /\ \A t \in AllTags : FeedbackCount(database, t) = CallsOn(t)
    /\ \A gid \in DOMAIN ehdb, rating \in {1, -1} :
          FeedbackRows(database, gid) # {}
          => LET r == handle_feedback(database, engine, gid, rating)
             IN /\ Cardinality(r.db.feedback) = Cardinality(database.feedback)
                /\ \A t \in AllTags :
                       FeedbackCount(r.db, t)
                       = FeedbackCount(database, t)
                         + Occurrences(t, ehdb[gid].tags)

\* handle_feedback was called twice on gallery 3: its tag other:misc has a
\* count of 2, more than the one feedback record that carries the tag
C29_Witness ==
    /\ calls[3] = 2
    /\ FeedbackCount(database, TagMisc) = 2
    /\ Cardinality({row \in database.feedback :
                       Resolves(row.gid)
                       /\ TagMisc \in Range(ehdb[row.gid].tags)}) = 1

\* the tags that occur on the favorites the content store resolves
FavoriteTags(db) ==
    UNION {Range(g.tags) : g \in get_galleries_by_ids(db.favorites)}

\* the tag similarity scores of the galleries of the content store
TagSimilarities(eng) ==
    [g \in DOMAIN ehdb |-> compute_tag_similarity(eng, ehdb[g].tags)]

\* C30: after every profile rebuild (a run of initialize() over favorites the
\* content store resolves) the key set of the in-memory tag weight table is
\* the set of tags on the resolved favorites, whatever feedback counts are
\* stored; and liking or disliking a gallery none of whose tags occur on a
\* favorite changes no tag similarity score
C30_TagTableKeysAreFavoriteTags ==
    /\ get_galleries_by_ids(database.favorites) # {}
       => DOMAIN initialize(database, engine).eng.user_tag_weights
          = FavoriteTags(database)
    /\ \A gid \in DOMAIN ehdb, rating \in {1, -1} :
          LET r == handle_feedback(database, engine, gid, rating)
          IN /\ get_galleries_by_ids(database.favorites) # {}
                => DOMAIN r.eng.user_tag_weights = FavoriteTags(database)
             /\ Range(ehdb[gid].tags) \cap FavoriteTags(database) = {}
                => TagSimilarities(r.eng)
                   = TagSimilarities(initialize(database, engine).eng)

\* gallery 1 is the favorite and gallery 3, tagged other:misc alone, was
\* rated: the tag has a stored feedback count and no entry in the rebuilt
\* tag weight table
C30_Witness ==
    /\ database.favorites = {1}
    /\ engine.is_initialized
    /\ [gid |-> 3, rating |-> 1] \in database.feedback
    /\ FeedbackCount(database, TagMisc) > 0
    /\ TagMisc \notin DOMAIN engine.user_tag_weights
    /\ DOMAIN engine.user_tag_weights = FavoriteTags(database)

====
